---- MODULE Spec2Model ----
(***************************************************************************)
(* A model of the medicom / dcmpipe toolkit:                               *)
(*   - the element parser's iterator (core/read/iter.rs),                  *)
(*   - the volume assembler ImageVolume::load_slice (load/imgvol.rs),      *)
(*   - the series loader and the workspace lock (load/mod.rs),             *)
(*   - the C-FIND and C-STORE SCP handlers (app/scpapp),                   *)
(*   - AssocError::write (dimse/error.rs).                                 *)
(* Each part has its own next-state relation and specification; all start  *)
(* from the same initial state, the state right after construction.        *)
(*                                                                         *)
(* Floating point quantities (positions, spacings, slope, intercept) are   *)
(* integers counting thousandths; a not-a-number value is the record NaN.  *)
(***************************************************************************)
EXTENDS Integers, Sequences, FiniteSets, TLC

VARIABLES
    \* ---- Parser (core/read/iter.rs)
    iterator_ended,   \* Parser.iterator_ended
    produced,         \* the items next() has returned so far, in order
    \* ---- ImageVolume (load/imgvol.rs)
    vol,              \* the ImageVolume
    lsArg,            \* the slice the last load_slice call was given
    lsResult,         \* what the last load_slice call returned
    lsCalls,          \* number of load_slice calls made
    \* ---- Loader::load_into and the workspace RwLock (load/mod.rs)
    ldPc,             \* the loader's position in load_into
    ldChunks,         \* chunk keys still to be visited by the for loop
    ldChunk,          \* the chunk of the current iteration, and its parse result
    wsLock,           \* the RwLock<Workspace>: writer held / number of readers
    progress,         \* SeriesSourceLoadResult: loaded and failed chunk keys
    ldResult,         \* load_into's return value
    \* ---- C-FIND SCP handler (scpapp/cfind.rs)
    fPc, fReq, fResults, fIdx, fWire, fResult,
    \* ---- C-STORE SCP handler (scpapp/cstore.rs)
    sPc, sReq, sPdvs, sSink, sWire, sResult,
    \* ---- AssocError::write (dimse/error.rs)
    aePc, aeCtor, aeErr, aeWire, aeFlushed, aeResult,
    \* ---- Parser reading elements from a byte source (core/read/parser/util.rs)
    rdPc,             \* "closed" before a dataset is given, then "open"
    rdTs,             \* the transfer syntax of the dataset
    rdDictVr,         \* the VR the dictionary gives for a tag (implicit VR)
    rdData,           \* the byte source: its bytes, read position and behaviour
    rdEnded,          \* Parser.iterator_ended of this parser
    rdItems,          \* the items next() has returned so far, in order
    rdLast,           \* what the last iterate() did: reads made and their results
    \* ---- Decoding one slice and loading it (load/pixeldata, load/imgvol.rs)
    dcPc,             \* "idle", "processed", "loaded"
    dcInfo,           \* the PixelDataSliceInfo of the slice
    dcDecoded,        \* what load_pixel_data returned for it
    dcVol,            \* the volume the slice is loaded into
    dcResult,         \* what load_slice returned
    \* ---- Reading pixels of a volume (load/imgvol.rs)
    pxPc,             \* "loading", "got", "iterating", "ended"
    pxVol,            \* the volume
    pxLoads,          \* calls of load_slice made on it
    pxPlanar,         \* PlanarConfiguration of the slice that set its format
    pxPixel,          \* what the last get_pixel returned
    itAxis,           \* ImageVolumeAxisSliceIter: axis,
    itIndex,          \*   axis_index,
    itCount,          \*   pixel_count,
    itOut,            \*   and the pixels the loop got from it
    \* ---- WindowLevel::apply (load/pixeldata/winlevel.rs)
    wlPc,             \* "idle", "chosen", "applied"
    wlLevel,          \* the window level
    wlValue,          \* the value given to apply, in thousandths
    wlResult,         \* what apply returned, a fraction of output units
    \* ---- PixelDataSlice::shift_i8 / shift_i16 / shift_i32 (load/pixeldata/mod.rs)
    shPc,             \* "idle", "chosen", "shifted"
    shBits,           \* the width of the values: 8, 16 or 32
    shVal,            \* two signed values of that width
    shOut,            \* the two shifted values (a u32 as its halves)
    \* ---- PixelDataSliceInfo::validate and load_pixel_data (load/pixeldata/pdinfo.rs)
    vdPc,             \* "idle", "processed", "loaded"
    vdInfo,           \* the slice info as processed
    vdValid,          \* validate(): its result and the slice info it leaves
    vdDecoded,        \* what load_pixel_data returned
    mvPc,          \* "idle", "parsed" or "processed"
    mvOrig,        \* the PixelData element as it was parsed
    mvRoot,        \* the PixelData element kept in the element tree
    mvVr,          \* the slice info's vr
    mvBytes,       \* the slice info's pd_bytes (load::pixeldata)
    mvStream,      \* the data of the elements the parser yields for PixelData
    mvIdx,         \* the next element of that stream
    mvCoreBytes,   \* the slice info's pd_bytes (core::pixeldata)
    mmPc,          \* "loading" or "called"
    mmVol,         \* the volume minmax_winlevel is called on
    mmLoads,       \* load_slice calls on it so far
    mmOut,         \* what minmax_winlevel did
    vwOwner,       \* the thread that holds each of the viewer's mutexes, or "none"
    vwImageFiles,  \* ImageViewer.image_files: what each file leads to
    vwCache,       \* vol_cache: whether the series has a volume, and its slices
    vwFailed,      \* the number of paths in failed
    lfPc,          \* where the loader thread is in load_files
    lfFiles,       \* files_copy, the paths not yet visited
    lfPath,        \* the path being loaded
    lfResult,      \* what load_files returned
    uiPc,          \* where the UI thread is in update
    uiFrames,      \* calls of update so far
    uiLocal,       \* update's num_files, num_failed, loaded_count, finished_loading
    uiImage        \* what ImageLoader::load returned last

parserVars == <<iterator_ended, produced>>
volVars    == <<vol, lsArg, lsResult, lsCalls>>
loaderVars == <<ldPc, ldChunks, ldChunk, wsLock, progress, ldResult>>
findVars   == <<fPc, fReq, fResults, fIdx, fWire, fResult>>
storeVars  == <<sPc, sReq, sPdvs, sSink, sWire, sResult>>
aeVars     == <<aePc, aeCtor, aeErr, aeWire, aeFlushed, aeResult>>
readerVars == <<rdPc, rdTs, rdDictVr, rdData, rdEnded, rdItems, rdLast>>
decodeVars == <<dcPc, dcInfo, dcDecoded, dcVol, dcResult>>
pixelVars == <<pxPc, pxVol, pxLoads, pxPlanar, pxPixel, itAxis, itIndex, itCount, itOut>>
winLevelVars == <<wlPc, wlLevel, wlValue, wlResult>>
shiftVars == <<shPc, shBits, shVal, shOut>>
validateVars == <<vdPc, vdInfo, vdValid, vdDecoded>>
moveVars == <<mvPc, mvOrig, mvRoot, mvVr, mvBytes, mvStream, mvIdx, mvCoreBytes>>
minMaxVars == <<mmPc, mmVol, mmLoads, mmOut>>
viewerVars == <<vwOwner, vwImageFiles, vwCache, vwFailed, lfPc, lfFiles, lfPath, lfResult, uiPc, uiFrames, uiLocal, uiImage>>
vars == <<parserVars, volVars, loaderVars, findVars,
         storeVars, aeVars, readerVars, decodeVars,
         pixelVars, winLevelVars, shiftVars, validateVars, moveVars, minMaxVars, viewerVars>>

(***************************************************************************)
(* Bounds of the model.                                                    *)
(***************************************************************************)
MaxPulls == 6        \* calls of Parser::next

(***************************************************************************)
(* Parser::next, core/read/iter.rs.                                        *)
(***************************************************************************)
\* The elements a dataset may hold (their identity only).
Elements == {"e1", "e2"}

\* What Parser::iterate() can return to next().
IterateOutcomes ==
    {[kind |-> "ExpectedEOF"], [kind |-> "Err"], [kind |-> "OkNone"]}
    \cup {[kind |-> "OkSome", element |-> e] : e \in Elements}

\* The items next() can return: None, Some(Err(DetailedError)), Some(Ok(element)).
ItemNone == [item |-> "None"]
ItemErr  == [item |-> "SomeErr"]
ItemOk(e) == [item |-> "SomeOk", element |-> e]

\* A next() that forgets to latch iterator_ended on an error.
ParserNextNoLatch(ended, outcome) ==
    IF ended THEN [ended |-> TRUE, item |-> ItemNone]
    ELSE CASE outcome.kind = "ExpectedEOF" -> [ended |-> TRUE, item |-> ItemNone]
           [] outcome.kind = "Err"         -> [ended |-> FALSE, item |-> ItemErr]
           [] outcome.kind = "OkNone"      -> [ended |-> TRUE, item |-> ItemNone]
           [] outcome.kind = "OkSome"      -> [ended |-> FALSE, item |-> ItemOk(outcome.element)]

\* next(): the new value of iterator_ended and the returned item, given what
\* iterate() returns (iterate() is only called when the iterator has not ended).
ParserNext(ended, outcome) ==
    IF ended THEN [ended |-> TRUE, item |-> ItemNone]
    ELSE CASE outcome.kind = "ExpectedEOF" -> [ended |-> TRUE, item |-> ItemNone]
           [] outcome.kind = "Err"         -> [ended |-> TRUE, item |-> ItemErr]
           [] outcome.kind = "OkNone"      -> [ended |-> TRUE, item |-> ItemNone]
           [] outcome.kind = "OkSome"      -> [ended |-> FALSE, item |-> ItemOk(outcome.element)]

InitParser ==
    /\ iterator_ended = FALSE
    /\ produced = <<>>

\* One call of next() by the consumer.
Pull ==
    /\ Len(produced) < MaxPulls
    /\ \E outcome \in IterateOutcomes :
         LET r == ParserNext(iterator_ended, outcome) IN
           /\ iterator_ended' = r.ended
           /\ produced' = Append(produced, r.item)
    /\ UNCHANGED <<volVars, loaderVars, findVars, storeVars, aeVars, readerVars, decodeVars, pixelVars, winLevelVars, shiftVars, validateVars, moveVars, minMaxVars, viewerVars>>

(***************************************************************************)
(* Floating point values. A finite value is a count of thousandths; NaN    *)
(* compares false with everything, as IEEE-754 does.                       *)
(***************************************************************************)
Fl(v) == [nan |-> FALSE, v |-> v]
NaN   == [nan |-> TRUE, v |-> 0]
FLt(a, b) == ~a.nan /\ ~b.nan /\ a.v < b.v
FGt(a, b) == ~a.nan /\ ~b.nan /\ a.v > b.v
Abs(n) == IF n < 0 THEN -n ELSE n
\* (a - b).abs() > eps
FAbsDiffGt(a, b, eps) == ~a.nan /\ ~b.nan /\ Abs(a.v - b.v) > eps

\* Option<i16>
None    == [some |-> FALSE, v |-> 0]
Some(v) == [some |-> TRUE, v |-> v]

\* EPSILON_F64 / EPSILON_F32 = 0.01, in thousandths.
EPSILON == 10
\* i16::MAX and i16::MIN, the min_val / max_val of an empty volume.
I16Max == 32767
I16Min == -32768

(***************************************************************************)
(* The slices offered to load_slice: what PixelDataSliceInfo::process and  *)
(* the pixel decoder extract from one DicomRoot.                           *)
(*   early      : "uid" when sop_instance_id()/series_instance_id() fails, *)
(*                "process" when PixelDataSliceInfo::process fails         *)
(*   decode_err : load_pixel_data returns an error                         *)
(***************************************************************************)
BaseSlice ==
    [ early |-> "none", series_uid |-> "s1", patient_name |-> "p1",
      z |-> Fl(0), cols |-> 2, rows |-> 1, vox |-> <<500, 500, 1000>>,
      stride |-> 1, is_rgb |-> FALSE, pixel_pad |-> None,
      slope |-> Fl(1000), intercept |-> Fl(0), samples_per_pixel |-> 1,
      decode_err |-> FALSE, min_val |-> 0, max_val |-> 10,
      buffer |-> <<0, 10>> ]

\* Slices that differ from BaseSlice in one attribute (or in the attributes that
\* change together).
SliceVariants ==
    { BaseSlice,
      [BaseSlice EXCEPT !.early = "uid"],
      [BaseSlice EXCEPT !.early = "process", !.patient_name = "p2"],
      [BaseSlice EXCEPT !.series_uid = "s2"],
      [BaseSlice EXCEPT !.cols = 1, !.buffer = <<10>>, !.min_val = 10],
      [BaseSlice EXCEPT !.vox = <<505, 500, 1000>>],
      [BaseSlice EXCEPT !.vox = <<500, 500, 1020>>],
      [BaseSlice EXCEPT !.stride = 2],
      [BaseSlice EXCEPT !.is_rgb = TRUE, !.samples_per_pixel = 3,
                        !.buffer = <<1, 2, 3, 4, 5, 6>>, !.min_val = 0, !.max_val = 0],
      [BaseSlice EXCEPT !.samples_per_pixel = 3],
      [BaseSlice EXCEPT !.pixel_pad = Some(0), !.min_val = 10],
      [BaseSlice EXCEPT !.slope = Fl(1005)],
      [BaseSlice EXCEPT !.slope = Fl(1020)],
      [BaseSlice EXCEPT !.slope = NaN],
      [BaseSlice EXCEPT !.intercept = Fl(-20)],
      [BaseSlice EXCEPT !.decode_err = TRUE],
      [BaseSlice EXCEPT !.buffer = <<-5, 20>>, !.min_val = -5, !.max_val = 20] }

\* ImagePositionPatient z values.
ZPositions == {Fl(-1000), Fl(0), Fl(1500)}

\* Every variant at every position, and a slice whose position is not a number.
SliceInputs ==
    { [s EXCEPT !.z = zp] : s \in SliceVariants, zp \in ZPositions }
    \cup { [BaseSlice EXCEPT !.z = NaN] }

\* PixelDataSliceInfo::vol_dims(): the dimensions one slice reports. Its origin is
\* the slice's image position, and it counts itself as one slice along z.
SliceDims(s) ==
    [ origin |-> <<Fl(0), Fl(0), s.z>>,
      counts |-> <<s.cols, s.rows, 1>>,
      vox    |-> s.vox ]

(***************************************************************************)
(* ImageVolume, load/imgvol.rs.                                            *)
(***************************************************************************)
\* VolDims::default()
DefaultDims ==
    [ origin |-> <<Fl(0), Fl(0), Fl(0)>>, counts |-> <<0, 0, 0>>, vox |-> <<0, 0, 0>> ]

\* ImageVolume::default()
DefaultVolume ==
    [ slices |-> <<>>, infos |-> <<>>,
      patient_name |-> "", series_uid |-> "",
      dims |-> DefaultDims, stride |-> 0, is_rgb |-> FALSE, pixel_pad |-> None,
      slope |-> Fl(1000), intercept |-> Fl(0), samples_per_pixel |-> 0,
      min_val |-> I16Max, max_val |-> I16Min ]

\* A matches that compares the spacing only and lets any slice size through.
DimsMatchesSpacingOnly(self, other) ==
    /\ Abs(self.vox[1] - other.vox[1]) < EPSILON
    /\ Abs(self.vox[2] - other.vox[2]) < EPSILON
    /\ Abs(self.vox[3] - other.vox[3]) < EPSILON

\* VolDims::matches
DimsMatches(self, other) ==
    /\ self.counts[1] = other.counts[1]
    /\ self.counts[2] = other.counts[2]
    /\ Abs(self.vox[1] - other.vox[1]) < EPSILON
    /\ Abs(self.vox[2] - other.vox[2]) < EPSILON
    /\ Abs(self.vox[3] - other.vox[3]) < EPSILON

\* VolDims::inc_z_count
IncZCount(d) == [d EXCEPT !.counts[3] = @ + 1]

\* VolDims::set_origin
SetOrigin(d, origin) == [d EXCEPT !.origin = origin]

\* A comparison that never reports two positions as equal.
CmpNeverEqual(a, b) ==
    IF FLt(a.z, b.z) THEN "Less" ELSE "Greater"

\* ImageVolume::cmp_by_zpos
cmp_by_zpos(a, b) ==
    IF FLt(a.z, b.z) THEN "Less"
    ELSE IF FGt(a.z, b.z) THEN "Greater"
    ELSE "Equal"

\* The closure handed to binary_search_by: |i| Self::cmp_by_zpos(seek, i).
SeekCmp(seek, i) == cmp_by_zpos(seek, i)

\* slice::binary_search_by, as the standard library computes it: the closure
\* tells how the probed element compares to the target.
RECURSIVE BinarySearchLoop(_, _, _, _)
BinarySearchLoop(infos, seek, base, size) ==
    IF size > 1
    THEN LET half == size \div 2
             mid  == base + half
             cmp  == SeekCmp(seek, infos[mid + 1])
         IN BinarySearchLoop(infos, seek, IF cmp = "Greater" THEN base ELSE mid, size - half)
    ELSE base

\* Ok(index) is [found |-> TRUE], Err(index) is [found |-> FALSE]; indices are 0-based.
BinarySearchBy(infos, seek) ==
    IF Len(infos) = 0 THEN [found |-> FALSE, loc |-> 0]
    ELSE LET base == BinarySearchLoop(infos, seek, 0, Len(infos))
             cmp  == SeekCmp(seek, infos[base + 1])
         IN IF cmp = "Equal" THEN [found |-> TRUE, loc |-> base]
            ELSE [found |-> FALSE, loc |-> base + (IF cmp = "Less" THEN 1 ELSE 0)]

\* Vec::insert(loc, x), loc 0-based.
VecInsert(q, loc, x) == SubSeq(q, 1, loc) \o <<x>> \o SubSeq(q, loc + 1, Len(q))

Min(a, b) == IF a < b THEN a ELSE b
Max(a, b) == IF a > b THEN a ELSE b

Ret(v, r) == [vol |-> v, result |-> r]

\* load_slice, lines 463-485: decode the pixel data, fold the slice's value range
\* into the volume's, then insert the slice at the place the binary search gives.
DecodeAndInsert(self, s) ==
    IF s.decode_err THEN Ret(self, "DecodeError")
    ELSE LET v == [self EXCEPT !.min_val = Min(@, s.min_val),
                               !.max_val = Max(@, s.max_val)]
             search == BinarySearchBy(v.infos, s)
         IN IF search.found
            THEN Ret(v, "SameZPos")
            ELSE LET infos2 == VecInsert(v.infos, search.loc, s) IN
                 Ret([v EXCEPT !.infos  = infos2,
                               !.slices = VecInsert(v.slices, search.loc, s.buffer),
                               !.dims   = SetOrigin(@, SliceDims(infos2[1]).origin)],
                     "Ok")

\* load_slice, lines 390-461: the first slice sets the volume's format, every
\* later slice is compared with it.
CheckFormat(self, s) ==
    IF Len(self.infos) = 0
    THEN DecodeAndInsert([self EXCEPT !.series_uid = s.series_uid,
                                      !.dims = SliceDims(s),
                                      !.stride = s.stride,
                                      !.is_rgb = s.is_rgb,
                                      !.pixel_pad = s.pixel_pad,
                                      !.slope = s.slope,
                                      !.intercept = s.intercept,
                                      !.samples_per_pixel = s.samples_per_pixel], s)
    ELSE IF s.series_uid # self.series_uid THEN Ret(self, "SeriesMismatch")
    ELSE IF ~DimsMatches(self.dims, SliceDims(s)) THEN Ret(self, "DimsMismatch")
    ELSE LET v == [self EXCEPT !.dims = IncZCount(@)] IN
         IF s.stride # v.stride THEN Ret(v, "StrideMismatch")
         ELSE IF s.is_rgb # v.is_rgb THEN Ret(v, "RgbMismatch")
         ELSE IF s.pixel_pad # v.pixel_pad THEN Ret(v, "PixelPadMismatch")
         ELSE IF FAbsDiffGt(s.slope, v.slope, EPSILON) THEN Ret(v, "SlopeMismatch")
         ELSE IF FAbsDiffGt(s.intercept, v.intercept, EPSILON) THEN Ret(v, "InterceptMismatch")
         ELSE IF s.samples_per_pixel # v.samples_per_pixel THEN Ret(v, "SamplesMismatch")
         ELSE DecodeAndInsert(v, s)

\* ImageVolume::load_slice: the volume after the call and the call's result
\* ("Ok" or the reason of the error).
LoadSlice(self, s) ==
    IF s.early = "uid" THEN Ret(self, "UidError")
    ELSE LET v == [self EXCEPT !.patient_name = s.patient_name] IN
         IF s.early = "process" THEN Ret(v, "ProcessError")
         ELSE CheckFormat(v, s)

MaxLoads == 3       \* calls of load_slice on one volume

InitVolume ==
    /\ vol = DefaultVolume
    /\ lsArg = BaseSlice
    /\ lsResult = "None"
    /\ lsCalls = 0

\* One call of load_slice on the volume.
LoadSliceCall ==
    /\ lsCalls < MaxLoads
    /\ \E s \in SliceInputs :
         LET r == LoadSlice(vol, s) IN
           /\ vol' = r.vol
           /\ lsArg' = s
           /\ lsResult' = r.result
    /\ lsCalls' = lsCalls + 1
    /\ UNCHANGED <<parserVars, loaderVars, findVars, storeVars, aeVars, readerVars, decodeVars, pixelVars, winLevelVars, shiftVars, validateVars, moveVars, minMaxVars, viewerVars>>

(***************************************************************************)
(* Loader::load_into and the RwLock<Workspace>, load/mod.rs.               *)
(* The workspace holds one volume, the one of source.loadable_key(); a     *)
(* volume that is not there yet reads as the default volume, which is what *)
(* initialize_vol puts in its place.                                       *)
(***************************************************************************)
MaxChunks  == 3     \* chunks of the series source
MaxReaders == 2     \* threads that read the workspace while it loads

\* The slices the chunks of the source may hold.
LoaderSlices ==
    { BaseSlice,
      [BaseSlice EXCEPT !.z = Fl(1500)],
      [BaseSlice EXCEPT !.z = Fl(1500), !.stride = 2],
      [BaseSlice EXCEPT !.z = Fl(-1000), !.decode_err = TRUE] }

\* A slice whose PixelData holds fewer bytes than its rows and columns ask for:
\* the decoder's bytes[in_pos..in_pos + 2] is out of range.
TruncatedSlice == [BaseSlice EXCEPT !.z = Fl(2500), !.decode_err = TRUE]

\* What a chunk key leads to: chunk_stream fails, the stream holds no DICOM
\* dataset (or does not parse), or it parses to a DicomRoot.
ChunkContents ==
    {[kind |-> "stream_err"], [kind |-> "not_dicom"]}
    \cup {[kind |-> "dicom", slice |-> s] : s \in LoaderSlices}
    \cup {[kind |-> "dicom_truncated", slice |-> TruncatedSlice]}

SeqsUpTo(S, n) == UNION {[1..k -> S] : k \in 0..n}

\* A write() that returns a guard without taking the lock.
WriteLockNotTaken(l) == l

\* RwLock: write() is granted when nobody holds the lock, read() when no writer does;
\* both fail on a poisoned lock.
CanWrite(l)  == ~l.writer /\ l.readers = 0
WriteLock(l) == [l EXCEPT !.writer = TRUE]
WriteUnlock(l) == [l EXCEPT !.writer = FALSE]
CanRead(l)   == ~l.writer /\ ~l.poisoned
ReadLock(l)   == [l EXCEPT !.readers = @ + 1]
ReadUnlock(l) == [l EXCEPT !.readers = @ - 1]

\* load_chunk, lines 170-173: open the chunk's stream and parse it.
ParseChunk(content) ==
    CASE content.kind = "stream_err" -> [ok |-> FALSE, err |-> "StreamError"]
      [] content.kind = "not_dicom"  -> [ok |-> FALSE, err |-> "NotDICOM"]
      [] content.kind \in {"dicom", "dicom_truncated"}
                                     -> [ok |-> TRUE, dcmroot |-> content.slice]

\* load_slice reaches load_pixel_data with PixelData that is too short: the
\* slice index in the decoder panics.
DecodePanics(self, content) ==
    /\ content.kind = "dicom_truncated"
    /\ LoadSlice(self, content.slice).result = "DecodeError"

NoChunk == [key |-> 0, content |-> [kind |-> "none"], success |-> FALSE]

InitLoader ==
    /\ ldPc = "start"
    /\ ldChunks = <<>>
    /\ ldChunk = NoChunk
    /\ wsLock = [writer |-> FALSE, readers |-> 0, poisoned |-> FALSE]
    /\ progress = [loaded |-> <<>>, failed |-> <<>>]
    /\ ldResult = "None"

\* for chunk_key in source.chunks()? : the chunk list is read once.
LdListChunks ==
    /\ ldPc = "start"
    /\ \/ /\ ldResult' = "ChunksError"
          /\ ldPc' = "done"
          /\ UNCHANGED ldChunks
       \/ /\ \E src \in SeqsUpTo(ChunkContents, MaxChunks) :
               ldChunks' = [i \in 1..Len(src) |-> [key |-> i, content |-> src[i]]]
          /\ ldPc' = "lock"
          /\ UNCHANGED ldResult
    /\ UNCHANGED <<ldChunk, wsLock, progress, vol, lsArg, lsResult, lsCalls>>
    /\ UNCHANGED <<parserVars, findVars, storeVars, aeVars, readerVars, decodeVars, pixelVars, winLevelVars, shiftVars, validateVars, moveVars, minMaxVars, viewerVars>>

\* The for loop is over: return Ok(()).
LdFinish ==
    /\ ldPc = "lock"
    /\ ldChunks = <<>>
    /\ ldResult' = "Ok"
    /\ ldPc' = "done"
    /\ UNCHANGED <<ldChunks, ldChunk, wsLock, progress, vol, lsArg, lsResult, lsCalls>>
    /\ UNCHANGED <<parserVars, findVars, storeVars, aeVars, readerVars, decodeVars, pixelVars, winLevelVars, shiftVars, validateVars, moveVars, minMaxVars, viewerVars>>

\* Lines 140-149: workspace.write() on a poisoned lock returns LockError.
LdLockError ==
    /\ ldPc = "lock"
    /\ ldChunks # <<>>
    /\ wsLock.poisoned
    /\ CanWrite(wsLock)
    /\ ldResult' = "LockError"
    /\ ldPc' = "done"
    /\ UNCHANGED <<ldChunks, ldChunk, wsLock, progress, vol, lsArg, lsResult, lsCalls>>
    /\ UNCHANGED <<parserVars, findVars, storeVars, aeVars, readerVars, decodeVars, pixelVars, winLevelVars, shiftVars, validateVars, moveVars, minMaxVars, viewerVars>>

\* Lines 140-149: take the next chunk key, workspace.write(), look the volume up.
LdLock ==
    /\ ldPc = "lock"
    /\ ldChunks # <<>>
    /\ ~wsLock.poisoned
    /\ CanWrite(wsLock)
    /\ wsLock' = WriteLock(wsLock)
    /\ ldChunk' = [key |-> Head(ldChunks).key, content |-> Head(ldChunks).content,
                   success |-> FALSE]
    /\ ldChunks' = Tail(ldChunks)
    /\ ldPc' = "parse"
    /\ UNCHANGED <<progress, ldResult, vol, lsArg, lsResult, lsCalls>>
    /\ UNCHANGED <<parserVars, findVars, storeVars, aeVars, readerVars, decodeVars, pixelVars, winLevelVars, shiftVars, validateVars, moveVars, minMaxVars, viewerVars>>

\* load_chunk, lines 170-173: a chunk that does not open or parse fails here.
LdParse ==
    /\ ldPc = "parse"
    /\ LET p == ParseChunk(ldChunk.content) IN
         ldPc' = IF p.ok THEN "load_slice" ELSE "progress"
    /\ UNCHANGED <<ldChunks, ldChunk, wsLock, progress, ldResult, vol, lsArg, lsResult, lsCalls>>
    /\ UNCHANGED <<parserVars, findVars, storeVars, aeVars, readerVars, decodeVars, pixelVars, winLevelVars, shiftVars, validateVars, moveVars, minMaxVars, viewerVars>>

\* load_chunk, line 174: imgvol.load_slice(dcmroot).
LdLoadSlice ==
    /\ ldPc = "load_slice"
    /\ ~DecodePanics(vol, ldChunk.content)
    /\ LET r == LoadSlice(vol, ParseChunk(ldChunk.content).dcmroot) IN
         /\ vol' = r.vol
         /\ lsArg' = ParseChunk(ldChunk.content).dcmroot
         /\ lsResult' = r.result
         /\ ldChunk' = [ldChunk EXCEPT !.success = (r.result = "Ok")]
    /\ lsCalls' = lsCalls + 1
    /\ ldPc' = "progress"
    /\ UNCHANGED <<ldChunks, wsLock, progress, ldResult>>
    /\ UNCHANGED <<parserVars, findVars, storeVars, aeVars, readerVars, decodeVars, pixelVars, winLevelVars, shiftVars, validateVars, moveVars, minMaxVars, viewerVars>>

\* load_chunk, line 174, when the decoder panics: the thread unwinds out of
\* load_into, the write guard is dropped on the way and poisons the lock; what
\* load_slice did to the volume before the decoder stays.
LdLoadSlicePanics ==
    /\ ldPc = "load_slice"
    /\ DecodePanics(vol, ldChunk.content)
    /\ vol' = LoadSlice(vol, ldChunk.content.slice).vol
    /\ lsArg' = ldChunk.content.slice
    /\ lsResult' = "Panic"
    /\ lsCalls' = lsCalls + 1
    /\ wsLock' = [WriteUnlock(wsLock) EXCEPT !.poisoned = TRUE]
    /\ ldPc' = "panicked"
    /\ UNCHANGED <<ldChunks, ldChunk, progress, ldResult>>
    /\ UNCHANGED <<parserVars, findVars, storeVars, aeVars, readerVars, decodeVars, pixelVars, winLevelVars, shiftVars, validateVars, moveVars, minMaxVars, viewerVars>>

\* Lines 151-159: record the chunk as loaded or failed.
LdProgress ==
    /\ ldPc = "progress"
    /\ progress' = IF ldChunk.success
                   THEN [progress EXCEPT !.loaded = Append(@, ldChunk.key)]
                   ELSE [progress EXCEPT !.failed = Append(@, ldChunk.key)]
    /\ ldPc' = "unlock"
    /\ UNCHANGED <<ldChunks, ldChunk, wsLock, ldResult, vol, lsArg, lsResult, lsCalls>>
    /\ UNCHANGED <<parserVars, findVars, storeVars, aeVars, readerVars, decodeVars, pixelVars, winLevelVars, shiftVars, validateVars, moveVars, minMaxVars, viewerVars>>

\* Line 160: the write guard is dropped at the end of the loop body.
LdUnlock ==
    /\ ldPc = "unlock"
    /\ wsLock' = WriteUnlock(wsLock)
    /\ ldPc' = "lock"
    /\ UNCHANGED <<ldChunks, ldChunk, progress, ldResult, vol, lsArg, lsResult, lsCalls>>
    /\ UNCHANGED <<parserVars, findVars, storeVars, aeVars, readerVars, decodeVars, pixelVars, winLevelVars, shiftVars, validateVars, moveVars, minMaxVars, viewerVars>>

\* Another thread takes the read lock to look at the volume ...
ReaderAcquire ==
    /\ CanRead(wsLock)
    /\ wsLock.readers < MaxReaders
    /\ wsLock' = ReadLock(wsLock)
    /\ UNCHANGED <<ldPc, ldChunks, ldChunk, progress, ldResult, vol, lsArg, lsResult, lsCalls>>
    /\ UNCHANGED <<parserVars, findVars, storeVars, aeVars, readerVars, decodeVars, pixelVars, winLevelVars, shiftVars, validateVars, moveVars, minMaxVars, viewerVars>>

\* ... and drops it.
ReaderRelease ==
    /\ wsLock.readers > 0
    /\ wsLock' = ReadUnlock(wsLock)
    /\ UNCHANGED <<ldPc, ldChunks, ldChunk, progress, ldResult, vol, lsArg, lsResult, lsCalls>>
    /\ UNCHANGED <<parserVars, findVars, storeVars, aeVars, readerVars, decodeVars, pixelVars, winLevelVars, shiftVars, validateVars, moveVars, minMaxVars, viewerVars>>

\* Another user of the workspace panics while it holds the write lock: the lock is
\* released and left poisoned.
OtherWriterPanics ==
    /\ CanWrite(wsLock)
    /\ ~wsLock.poisoned
    /\ wsLock' = [wsLock EXCEPT !.poisoned = TRUE]
    /\ UNCHANGED <<ldPc, ldChunks, ldChunk, progress, ldResult, vol, lsArg, lsResult, lsCalls>>
    /\ UNCHANGED <<parserVars, findVars, storeVars, aeVars, readerVars, decodeVars, pixelVars, winLevelVars, shiftVars, validateVars, moveVars, minMaxVars, viewerVars>>

(***************************************************************************)
(* AssociationDevice::handle_c_find_req, scpapp/cfind.rs.                  *)
(* fWire holds the PDUs that write_pdu has written, in order.              *)
(***************************************************************************)
MaxResults == 3     \* matches of one C-FIND query
MaxMsgId   == 2     \* message ids of the requests

Datasets == {"d1", "d2"}

\* The PDUs of a C-FIND answer: the pair create_cfind_result builds for the
\* i-th match, and the one create_cfind_end builds.
ResultCmd(msg_id, i)   == [pdu |-> "result_cmd", msg_id |-> msg_id, index |-> i]
ResultData(i, dataset) == [pdu |-> "result_data", index |-> i, dataset |-> dataset]
EndRsp(msg_id)         == [pdu |-> "end", msg_id |-> msg_id]

\* The requests: the command may lack MessageID or AffectedSOPClassUID, and the
\* query either fails or gives the list of matches.
FindRequests ==
    { [msg_id |-> m, has_msg_id |-> hm, has_sop_class |-> hs, query_ok |-> q, results |-> r] :
        m \in 1..MaxMsgId, hm \in BOOLEAN, hs \in BOOLEAN, q \in BOOLEAN,
        r \in SeqsUpTo(Datasets, MaxResults) }

\* A handler that drops the result of a call instead of returning its error.
FindStepIgnoreError(ok, nextPc) == nextPc

\* The ? operator: go on when the call succeeded, return the error otherwise.
FindStep(ok, nextPc) == IF ok THEN nextPc ELSE "failed"

\* The loop over the results: the next match, or the end of the answer.
FindAfterResult(idx, n) == IF idx < n THEN "result_cmd" ELSE "end"

InitFind ==
    /\ fPc = "idle"
    /\ fReq = [msg_id |-> 0, has_msg_id |-> FALSE, has_sop_class |-> FALSE,
               query_ok |-> FALSE, results |-> <<>>]
    /\ fResults = <<>>
    /\ fIdx = 0
    /\ fWire = <<>>
    /\ fResult = "None"

\* Lines 102-108: read MessageID and AffectedSOPClassUID from the command, run
\* the query.
FindBegin ==
    /\ fPc = "idle"
    /\ \E req \in FindRequests :
         LET ok == req.has_msg_id /\ req.has_sop_class /\ req.query_ok
             results == IF ok THEN req.results ELSE <<>>
         IN
           /\ fReq' = req
           /\ fResults' = results
           /\ fIdx' = IF Len(results) > 0 THEN 1 ELSE 0
           /\ fPc' = FindStep(ok, FindAfterResult(0, Len(results)))
           /\ fResult' = IF FindStep(ok, "go") = "failed" THEN "Err" ELSE "None"
    /\ UNCHANGED fWire
    /\ UNCHANGED <<parserVars, volVars, loaderVars, storeVars, aeVars, readerVars, decodeVars, pixelVars, winLevelVars, shiftVars, validateVars, moveVars, minMaxVars, viewerVars>>

\* Lines 111-112: build the pair of PDUs of the current match and write the
\* command PDU; building or writing may fail.
FindWriteResultCmd ==
    /\ fPc = "result_cmd"
    /\ \E created \in BOOLEAN, written \in BOOLEAN :
         /\ fPc' = FindStep(created, FindStep(written, "result_data"))
         /\ fWire' = IF created /\ written
                     THEN Append(fWire, ResultCmd(fReq.msg_id, fIdx)) ELSE fWire
         /\ fResult' = IF FindStep(created, FindStep(written, "go")) = "failed"
                       THEN "Err" ELSE "None"
    /\ UNCHANGED <<fReq, fResults, fIdx>>
    /\ UNCHANGED <<parserVars, volVars, loaderVars, storeVars, aeVars, readerVars, decodeVars, pixelVars, winLevelVars, shiftVars, validateVars, moveVars, minMaxVars, viewerVars>>

\* Line 113: write the dataset PDU of the current match, then go on with the loop.
FindWriteResultData ==
    /\ fPc = "result_data"
    /\ \E written \in BOOLEAN :
         /\ fPc' = FindStep(written, FindAfterResult(fIdx, Len(fResults)))
         /\ fWire' = IF written
                     THEN Append(fWire, ResultData(fIdx, fResults[fIdx])) ELSE fWire
         /\ fResult' = IF FindStep(written, "go") = "failed" THEN "Err" ELSE "None"
         /\ fIdx' = IF FindStep(written, "go") = "failed" THEN fIdx
                    ELSE IF fIdx < Len(fResults) THEN fIdx + 1 ELSE fIdx
    /\ UNCHANGED <<fReq, fResults>>
    /\ UNCHANGED <<parserVars, volVars, loaderVars, storeVars, aeVars, readerVars, decodeVars, pixelVars, winLevelVars, shiftVars, validateVars, moveVars, minMaxVars, viewerVars>>

\* Lines 116-119: build and write the terminating response, return Ok(()).
FindWriteEnd ==
    /\ fPc = "end"
    /\ \E created \in BOOLEAN, written \in BOOLEAN :
         /\ fPc' = FindStep(created, FindStep(written, "done"))
         /\ fWire' = IF created /\ written THEN Append(fWire, EndRsp(fReq.msg_id)) ELSE fWire
         /\ fResult' = IF FindStep(created, FindStep(written, "go")) = "failed"
                       THEN "Err" ELSE "Ok"
    /\ UNCHANGED <<fReq, fResults, fIdx>>
    /\ UNCHANGED <<parserVars, volVars, loaderVars, storeVars, aeVars, readerVars, decodeVars, pixelVars, winLevelVars, shiftVars, validateVars, moveVars, minMaxVars, viewerVars>>

(***************************************************************************)
(* AssociationDevice::handle_c_store_req, scpapp/cstore.rs.                *)
(* sSink counts the dataset PDVs read_dataset has handed to the sink,      *)
(* sWire holds the responses written.                                      *)
(***************************************************************************)
MaxPdvs     == 5    \* PDVs of one C-STORE dataset
MaxStoreMsg == 3    \* message ids of the C-STORE requests

\* The requests: the command is acceptable to process_req or not, and the dataset
\* arrives in a number of PDVs, the last one flagged as last.
StoreRequests ==
    { [msg_id |-> m, cmd_ok |-> c, pdvs |-> n] :
        m \in 1..MaxStoreMsg, c \in BOOLEAN, n \in 1..MaxPdvs }

\* CommandStatus::success()
StatusSuccess == [status |-> "Success"]
StoreRsp(msg_id, status) == [pdu |-> "c_store_rsp", msg_id |-> msg_id, status |-> status]

\* A handler that answers although the step before failed.
StoreStepIgnoreError(ok, nextPc) == nextPc

\* The ? operator of handle_c_store_req.
StoreStep(ok, nextPc) == IF ok THEN nextPc ELSE "failed"

InitStore ==
    /\ sPc = "idle"
    /\ sReq = [msg_id |-> 0, cmd_ok |-> FALSE, pdvs |-> 0]
    /\ sPdvs = 0
    /\ sSink = 0
    /\ sWire = <<>>
    /\ sResult = "None"

\* Line 34: op.process_req(cmd)?
StoreProcessReq ==
    /\ sPc = "idle"
    /\ \E req \in StoreRequests :
         /\ sReq' = req
         /\ sPdvs' = req.pdvs
         /\ sPc' = StoreStep(req.cmd_ok, "read_dataset")
         /\ sResult' = IF StoreStep(req.cmd_ok, "go") = "failed" THEN "Err" ELSE "None"
    /\ UNCHANGED <<sSink, sWire>>
    /\ UNCHANGED <<parserVars, volVars, loaderVars, findVars, aeVars, readerVars, decodeVars, pixelVars, winLevelVars, shiftVars, validateVars, moveVars, minMaxVars, viewerVars>>

\* Lines 37-43: CommonAssoc::read_dataset(...)? reads the dataset's PDVs into the
\* sink until the last one, or fails after having read some of them.
StoreReadDataset ==
    /\ sPc = "read_dataset"
    /\ \E got \in 0..sPdvs :
         LET complete == (got = sPdvs) IN
           /\ sSink' = got
           /\ sPdvs' = sPdvs - got
           /\ sPc' = StoreStep(complete, "respond")
           /\ sResult' = IF StoreStep(complete, "go") = "failed" THEN "Err" ELSE "None"
    /\ UNCHANGED <<sReq, sWire>>
    /\ UNCHANGED <<parserVars, volVars, loaderVars, findVars, aeVars, readerVars, decodeVars, pixelVars, winLevelVars, shiftVars, validateVars, moveVars, minMaxVars, viewerVars>>

\* Lines 45-49: op.write_response(.., &CommandStatus::success()) is the handler's
\* result.
StoreWriteResponse ==
    /\ sPc = "respond"
    /\ \E written \in BOOLEAN :
         /\ sWire' = IF written THEN Append(sWire, StoreRsp(sReq.msg_id, StatusSuccess))
                     ELSE sWire
         /\ sPc' = StoreStep(written, "done")
         /\ sResult' = IF StoreStep(written, "go") = "failed" THEN "Err" ELSE "Ok"
    /\ UNCHANGED <<sReq, sPdvs, sSink>>
    /\ UNCHANGED <<parserVars, volVars, loaderVars, findVars, aeVars, readerVars, decodeVars, pixelVars, winLevelVars, shiftVars, validateVars, moveVars, minMaxVars, viewerVars>>

(***************************************************************************)
(* AssocError and AssocError::write, dimse/error.rs.                       *)
(***************************************************************************)
\* AssocRJ::new(result, source, reason) and Abort::new(source, reason)
AssocRJ(result, source, reason) ==
    [pdu |-> "A-ASSOCIATE-RJ", result |-> result, source |-> source, reason |-> reason]
Abort(source, reason) ==
    [pdu |-> "A-ABORT", result |-> 0, source |-> source, reason |-> reason]

NoRsp == [pdu |-> "none", result |-> 0, source |-> 0, reason |-> 0]

\* The DimseError values an AssocError may wrap (their kind only).
DimseErrors ==
    {"InvalidPduType", "InvalidAeTitle", "UnexpectedEOF", "UnexpectedPDU",
     "ParseError", "IOError", "GeneralError"}

\* The constructors of AssocError.
error(err)             == [rsp |-> NoRsp, err |-> err]
ab_failure(err)        == [rsp |-> Abort(0, 0), err |-> err]
ab_unexpected_pdu(err) == [rsp |-> Abort(2, 2), err |-> err]
ab_invalid_pdu(err)    == [rsp |-> Abort(2, 6), err |-> err]
rj_failure(err)        == [rsp |-> AssocRJ(2, 1, 1), err |-> err]
rj_calling_aet(err)    == [rsp |-> AssocRJ(2, 1, 3), err |-> err]
\* A constructor for a called-AE-title mismatch that carries the calling-AE
\* reason.
RjCalledAetWrongReason(err) == [rsp |-> AssocRJ(2, 1, 3), err |-> err]
rj_called_aet(err)     == [rsp |-> AssocRJ(2, 1, 7), err |-> err]
rj_unsupported(err)    == [rsp |-> AssocRJ(2, 1, 2), err |-> err]

\* The names of the constructors, and the constructor each name stands for.
AssocErrorCtors ==
    {"error", "ab_failure", "ab_unexpected_pdu", "ab_invalid_pdu",
     "rj_failure", "rj_calling_aet", "rj_called_aet", "rj_unsupported"}

Construct(ctor, err) ==
    CASE ctor = "error"             -> error(err)
      [] ctor = "ab_failure"        -> ab_failure(err)
      [] ctor = "ab_unexpected_pdu" -> ab_unexpected_pdu(err)
      [] ctor = "ab_invalid_pdu"    -> ab_invalid_pdu(err)
      [] ctor = "rj_failure"        -> rj_failure(err)
      [] ctor = "rj_calling_aet"    -> rj_calling_aet(err)
      [] ctor = "rj_called_aet"     -> rj_called_aet(err)
      [] ctor = "rj_unsupported"    -> rj_unsupported(err)

AssocErrors ==
    { Construct(c, e) : c \in AssocErrorCtors, e \in DimseErrors }

\* What the writer does with a write and with a flush.
WriterOutcomes == {[write_ok |-> w, flush_ok |-> f] : w \in BOOLEAN, f \in BOOLEAN}

\* A write that returns Ok(()) once the response went out.
AssocErrorWriteReturnsOk(self, io) ==
    IF self.rsp.pdu = "none"
    THEN [wire |-> <<>>, flushed |-> "no", result |-> [ok |-> FALSE, err |-> self.err]]
    ELSE IF ~io.write_ok
    THEN [wire |-> <<>>, flushed |-> "no", result |-> [ok |-> FALSE, err |-> "WriteFailed"]]
    ELSE IF ~io.flush_ok
    THEN [wire |-> <<self.rsp>>, flushed |-> "failed", result |-> [ok |-> FALSE, err |-> "FlushFailed"]]
    ELSE [wire |-> <<self.rsp>>, flushed |-> "ok", result |-> [ok |-> TRUE, err |-> "none"]]

\* AssocError::write: the PDUs put on the writer, whether flush was called (and
\* how it ended), and the returned Result.
AssocErrorWrite(self, io) ==
    IF self.rsp.pdu = "none"
    THEN [wire |-> <<>>, flushed |-> "no", result |-> [ok |-> FALSE, err |-> self.err]]
    ELSE IF ~io.write_ok
    THEN [wire |-> <<>>, flushed |-> "no", result |-> [ok |-> FALSE, err |-> "WriteFailed"]]
    ELSE IF ~io.flush_ok
    THEN [wire |-> <<self.rsp>>, flushed |-> "failed", result |-> [ok |-> FALSE, err |-> "FlushFailed"]]
    ELSE [wire |-> <<self.rsp>>, flushed |-> "ok", result |-> [ok |-> FALSE, err |-> self.err]]

InitAssocError ==
    /\ aePc = "idle"
    /\ aeCtor = "error"
    /\ aeErr = error("GeneralError")
    /\ aeWire = <<>>
    /\ aeFlushed = "no"
    /\ aeResult = [ok |-> FALSE, err |-> "none"]

\* An association error is raised by one of the constructors.
AeRaise ==
    /\ aePc = "idle"
    /\ \E c \in AssocErrorCtors, e \in DimseErrors :
         /\ aeCtor' = c
         /\ aeErr' = Construct(c, e)
    /\ aePc' = "raised"
    /\ UNCHANGED <<aeWire, aeFlushed, aeResult>>
    /\ UNCHANGED <<parserVars, volVars, loaderVars, findVars, storeVars, readerVars, decodeVars, pixelVars, winLevelVars, shiftVars, validateVars, moveVars, minMaxVars, viewerVars>>

\* AssocError::write(writer)
AeWrite ==
    /\ aePc = "raised"
    /\ \E io \in WriterOutcomes :
         LET r == AssocErrorWrite(aeErr, io) IN
           /\ aeWire' = aeWire \o r.wire
           /\ aeFlushed' = r.flushed
           /\ aeResult' = r.result
    /\ aePc' = "done"
    /\ UNCHANGED <<aeCtor, aeErr>>
    /\ UNCHANGED <<parserVars, volVars, loaderVars, findVars, storeVars, readerVars, decodeVars, pixelVars, winLevelVars, shiftVars, validateVars, moveVars, minMaxVars, viewerVars>>

(***************************************************************************)
(* Reading elements from a byte source, core/read/parser/util.rs.          *)
(***************************************************************************)
MaxStreamLen == 14     \* bytes in the dataset
MaxReaderPulls == 3    \* calls of next() on the reading parser

\* The byte source is a record: bytes, the bytes it holds; pos, how many have
\* been read; chunk, the most bytes one read() call delivers; err_at, the
\* position at which read() returns an I/O error (-1: never).
\* One call of Read::read at position pos with a buffer of n > 0 bytes: an
\* error, or the number of bytes delivered, 0 once the bytes are exhausted.
\* (ErrorKind::Interrupted makes the loops below call read() again and is not
\* a separate outcome.)
SourceRead(ds, pos, n) ==
    IF ds.err_at = pos THEN [err |-> TRUE, n |-> 0]
    ELSE LET avail == Len(ds.bytes) - pos
             a == IF avail < n THEN avail ELSE n
         IN [err |-> FALSE, n |-> IF ds.chunk < a THEN ds.chunk ELSE a]

\* The result of a read helper: res is "Ok" or the ParseError, io the kind of
\* the std::io::Error inside ParseError::IOError, pos the source position
\* afterwards, eof whether the source returned zero bytes, val the value read.
Rd(res, io, pos, eof, val) ==
    [res |-> res, io |-> io, pos |-> pos, eof |-> eof, val |-> val]

\* (Below, a value that is used more than once is named by binding it to the
\* one element of a singleton set, so that it is computed once.)
\* The while loop of read_exact_expect_eof and the test after it.
RECURSIVE FillExpectEof(_, _, _, _)
FillExpectEof(ds, pos, need, bytes_read) ==
    IF need = 0 THEN Rd("Ok", "none", pos, FALSE, 0)
    ELSE CHOOSE out \in
      { IF r.err THEN Rd("IOError", "Other", pos, FALSE, 0)
        ELSE IF r.n = 0
        THEN IF bytes_read = 0
             THEN Rd("ExpectedEOF", "none", pos, TRUE, 0)
             ELSE Rd("IOError", "UnexpectedEof", pos, TRUE, 0)
        ELSE FillExpectEof(ds, pos + r.n, need - r.n, bytes_read + r.n)
        : r \in {SourceRead(ds, pos, need)} } : TRUE

\* A read_exact_expect_eof that reports ExpectedEOF for every short read.
ReadExactAlwaysExpectedEof(ds, pos, n) ==
    CHOOSE out \in
      { IF r.eof THEN Rd("ExpectedEOF", "none", r.pos, TRUE, 0) ELSE r
        : r \in {FillExpectEof(ds, pos, n, 0)} } : TRUE

\* read_exact_expect_eof(dataset, buf) with a buffer of n bytes
read_exact_expect_eof(ds, pos, n) == FillExpectEof(ds, pos, n, 0)

\* Read::read_exact as the helpers call it (with ? turning the io::Error into
\* ParseError::IOError): a short read is always ErrorKind::UnexpectedEof.
RECURSIVE read_exact(_, _, _)
read_exact(ds, pos, n) ==
    IF n = 0 THEN Rd("Ok", "none", pos, FALSE, 0)
    ELSE CHOOSE out \in
      { IF r.err THEN Rd("IOError", "Other", pos, FALSE, 0)
        ELSE IF r.n = 0 THEN Rd("IOError", "UnexpectedEof", pos, TRUE, 0)
        ELSE read_exact(ds, pos + r.n, n - r.n)
        : r \in {SourceRead(ds, pos, n)} } : TRUE

\* The buffer after n bytes were read up to position pos.
Buf(ds, pos, n) == SubSeq(ds.bytes, pos - n + 1, pos)

\* u16::from_be_bytes / from_le_bytes and u32::from_be_bytes / from_le_bytes
U16(b, big_endian) ==
    IF big_endian THEN b[1] * 256 + b[2] ELSE b[2] * 256 + b[1]
\* A u32 is kept as its two 16-bit halves, hi * 65536 + lo.
W32(hi, lo) == [hi |-> hi, lo |-> lo]
U32(b, big_endian) ==
    IF big_endian
    THEN W32(b[1] * 256 + b[2], b[3] * 256 + b[4])
    ELSE W32(b[4] * 256 + b[3], b[2] * 256 + b[1])

\* read_tag_from_dataset(dataset, big_endian)
read_tag_from_dataset(ds, pos, big_endian) ==
    CHOOSE out \in
      { IF g.res # "Ok" THEN g
        ELSE CHOOSE out2 \in
          { IF e.res # "Ok" THEN e
            ELSE [e EXCEPT !.val = W32(U16(Buf(ds, g.pos, 2), big_endian),
                                       U16(Buf(ds, e.pos, 2), big_endian))]
            : e \in {read_exact(ds, g.pos, 2)} } : TRUE
        : g \in {read_exact_expect_eof(ds, pos, 2)} } : TRUE

\* The value representations of the model: name, the two ASCII letters of the
\* code, and whether the explicit form carries the two reserved bytes.
VRs ==
    {[name |-> "OB", c1 |-> 79, c2 |-> 66, has_explicit_2byte_pad |-> TRUE],
     [name |-> "SQ", c1 |-> 83, c2 |-> 81, has_explicit_2byte_pad |-> TRUE],
     [name |-> "UN", c1 |-> 85, c2 |-> 78, has_explicit_2byte_pad |-> TRUE],
     [name |-> "US", c1 |-> 85, c2 |-> 83, has_explicit_2byte_pad |-> FALSE],
     [name |-> "UI", c1 |-> 85, c2 |-> 73, has_explicit_2byte_pad |-> FALSE]}
NoVR == [name |-> "none", c1 |-> 0, c2 |-> 0, has_explicit_2byte_pad |-> FALSE]

\* VR::from_code(code): the VR with that code, or NoVR for None.
VRFromCode(code) ==
    IF \E v \in VRs : v.c1 * 256 + v.c2 = code
    THEN CHOOSE v \in VRs : v.c1 * 256 + v.c2 = code
    ELSE NoVR

\* read_vr_from_dataset(dataset)
read_vr_from_dataset(ds, pos) ==
    CHOOSE out \in
      { IF c.res # "Ok" THEN [c EXCEPT !.val = NoVR]
        ELSE CHOOSE out2 \in
          { IF found_vr = NoVR
            THEN Rd("UnknownExplicitVR", "none", c.pos, FALSE, NoVR)
            ELSE IF found_vr.has_explicit_2byte_pad
            THEN CHOOSE out3 \in
                   { IF p.res # "Ok" THEN [p EXCEPT !.val = NoVR]
                     ELSE [p EXCEPT !.val = found_vr]
                     : p \in {read_exact(ds, c.pos, 2)} } : TRUE
            ELSE [c EXCEPT !.val = found_vr]
            : found_vr \in {VRFromCode(ds.bytes[c.pos - 1] * 256 + ds.bytes[c.pos])} } : TRUE
        : c \in {read_exact(ds, pos, 2)} } : TRUE

\* The transfer syntaxes: explicit_vr() and big_endian().
ImplicitVRLittleEndian == [explicit_vr |-> FALSE, big_endian |-> FALSE]
ExplicitVRLittleEndian == [explicit_vr |-> TRUE, big_endian |-> FALSE]
ExplicitVRBigEndian    == [explicit_vr |-> TRUE, big_endian |-> TRUE]
TransferSyntaxes ==
    {ImplicitVRLittleEndian, ExplicitVRLittleEndian, ExplicitVRBigEndian}

UndefinedLength == W32(65535, 65535)

\* The number of value bytes to read for a length. No dataset of the model
\* holds 65536 bytes, and read_exact ends alike for every longer buffer.
ByteCount(vl) == IF vl.hi > 0 THEN 65536 ELSE vl.lo

\* A read_value_length_from_dataset that reads a 2-byte length for every
\* explicit VR.
ReadValueLengthIgnoresPad(ds, pos, ts, vr) ==
    IF ~ts.explicit_vr
    THEN CHOOSE out \in
           { IF r.res # "Ok" THEN r
             ELSE [r EXCEPT !.val = U32(Buf(ds, r.pos, 4), ts.big_endian)]
             : r \in {read_exact(ds, pos, 4)} } : TRUE
    ELSE CHOOSE out \in
           { IF r.res # "Ok" THEN r
             ELSE [r EXCEPT !.val = W32(0, U16(Buf(ds, r.pos, 2), ts.big_endian))]
             : r \in {read_exact(ds, pos, 2)} } : TRUE

\* read_value_length_from_dataset(dataset, ts, vr): the length as a u32
\* (ValueLength::from makes 0xFFFF_FFFF the undefined length).
read_value_length_from_dataset(ds, pos, ts, vr) ==
    IF ~ts.explicit_vr \/ vr.has_explicit_2byte_pad
    THEN CHOOSE out \in
           { IF r.res # "Ok" THEN r
             ELSE [r EXCEPT !.val = U32(Buf(ds, r.pos, 4), ts.big_endian)]
             : r \in {read_exact(ds, pos, 4)} } : TRUE
    ELSE CHOOSE out \in
           { IF r.res # "Ok" THEN r
             ELSE [r EXCEPT !.val = W32(0, U16(Buf(ds, r.pos, 2), ts.big_endian))]
             : r \in {read_exact(ds, pos, 2)} } : TRUE

\* What one iterate() did: the stage it reached ("tag", "vr", "vl", "value"
\* where a read failed, "element" when an element was produced), the result
\* of the last read, the positions at which the element started and at which
\* the tag, the VR and the value length had been read (the position reached
\* for a part that was not read), and the values read.
Trace(stage, r, start, tag_end, vr_end, vl_end, tag, vr, vl) ==
    [stage |-> stage, res |-> r.res, io |-> r.io, eof |-> r.eof,
     start |-> start, tag_end |-> tag_end, vr_end |-> vr_end,
     vl_end |-> vl_end, end |-> r.pos,
     tag |-> tag, vr |-> vr, vl |-> vl]
NotCalled ==
    [stage |-> "none", res |-> "Ok", io |-> "none", eof |-> FALSE,
     start |-> 0, tag_end |-> 0, vr_end |-> 0, vl_end |-> 0, end |-> 0,
     tag |-> W32(0, 0), vr |-> NoVR, vl |-> W32(0, 0)]

\* Parser::iterate() in the dataset state, for one element: the tag, the VR
\* (read when the transfer syntax is explicit VR, else taken from the
\* dictionary), the value length, and the value bytes unless the element is a
\* sequence or of undefined length. Every failed read is returned with ?.
Iterate(ds, pos, ts, dict_vr) ==
  CHOOSE out \in {
    IF t.res # "Ok"
    THEN Trace("tag", t, pos, t.pos, t.pos, t.pos, W32(0, 0), NoVR, W32(0, 0))
    ELSE CHOOSE out2 \in {
      IF v.res # "Ok"
      THEN Trace("vr", v, pos, t.pos, v.pos, v.pos, t.val, NoVR, W32(0, 0))
      ELSE CHOOSE out3 \in {
        IF l.res # "Ok"
        THEN Trace("vl", l, pos, t.pos, v.pos, l.pos, t.val, v.val, W32(0, 0))
        ELSE CHOOSE out4 \in {
          Trace(IF d.res # "Ok" THEN "value" ELSE "element",
                d, pos, t.pos, v.pos, l.pos, t.val, v.val, l.val)
          : d \in {IF v.val.name = "SQ" \/ l.val = UndefinedLength
                    THEN Rd("Ok", "none", l.pos, FALSE, 0)
                    ELSE read_exact(ds, l.pos, ByteCount(l.val))} } : TRUE
        : l \in {read_value_length_from_dataset(ds, v.pos, ts, v.val)} } : TRUE
      : v \in {IF ts.explicit_vr THEN read_vr_from_dataset(ds, t.pos)
                ELSE Rd("Ok", "none", t.pos, FALSE, dict_vr)} } : TRUE
    : t \in {read_tag_from_dataset(ds, pos, ts.big_endian)} } : TRUE

\* What iterate() returns to next(), from what it did.
IterateResult(tr) ==
    CASE tr.res = "ExpectedEOF" -> [kind |-> "ExpectedEOF"]
      [] tr.res = "Ok" ->
           [kind |-> "OkSome",
            element |-> [tag |-> tr.tag, vr |-> tr.vr.name, vl |-> tr.vl]]
      [] OTHER -> [kind |-> "Err"]

\* The datasets of the model: the tag (0008,0018) in little endian, two bytes
\* that are a VR code in an explicit transfer syntax, six more bytes, and
\* filler, cut after any number of bytes up to MaxStreamLen.
TagBytes == <<8, 0, 24, 0>>
Heads == {<<79, 66>>, <<83, 81>>, <<85, 83>>, <<90, 90>>, <<2, 0>>}
Tails ==
    {<<1, 2, 3, 4, 5, 6>>, <<0, 0, 0, 0, 0, 0>>, <<0, 0, 2, 0, 0, 0>>,
     <<0, 2, 0, 0, 0, 2>>, <<255, 255, 255, 255, 255, 255>>}
Filler == <<9, 8, 7, 6, 5, 4>>
Stream(head, tail, k) ==
    LET full == TagBytes \o head \o tail \o Filler IN
      SubSeq(full, 1, IF k < Len(full) THEN k ELSE Len(full))
DictVRs == {v \in VRs : v.name \in {"OB", "SQ", "US"}}

InitReader ==
    /\ rdPc = "closed"
    /\ rdTs = ImplicitVRLittleEndian
    /\ rdDictVr = NoVR
    /\ rdData = [bytes |-> <<>>, pos |-> 0, chunk |-> 1, err_at |-> -1]
    /\ rdEnded = FALSE
    /\ rdItems = <<>>
    /\ rdLast = NotCalled

\* A parser is created over a dataset, positioned at its first element.
ReaderOpen ==
    /\ rdPc = "closed"
    /\ \E ts \in TransferSyntaxes, head \in Heads, tail \in Tails,
          k \in 0..MaxStreamLen, chunk \in {1, 4}, err_at \in {-1, 5} :
         /\ rdTs' = ts
         /\ rdData' = [bytes |-> Stream(head, tail, k), pos |-> 0,
                       chunk |-> chunk, err_at |-> err_at]
         /\ IF ts.explicit_vr
            THEN rdDictVr' = NoVR
            ELSE \E v \in DictVRs : rdDictVr' = v
    /\ rdPc' = "open"
    /\ UNCHANGED <<rdEnded, rdItems, rdLast>>
    /\ UNCHANGED <<parserVars, volVars, loaderVars, findVars, storeVars, aeVars, decodeVars, pixelVars, winLevelVars, shiftVars, validateVars, moveVars, minMaxVars, viewerVars>>

\* One call of next() on the parser.
ReaderNext ==
    /\ rdPc = "open"
    /\ Len(rdItems) < MaxReaderPulls
    /\ \E tr \in {IF rdEnded THEN NotCalled
                   ELSE Iterate(rdData, rdData.pos, rdTs, rdDictVr)} :
       \E r \in {ParserNext(rdEnded, IterateResult(tr))} :
          /\ rdEnded' = r.ended
          /\ rdItems' = Append(rdItems, r.item)
          /\ rdLast' = tr
          /\ rdData' = IF rdEnded THEN rdData ELSE [rdData EXCEPT !.pos = tr.end]
    /\ UNCHANGED <<rdPc, rdTs, rdDictVr>>
    /\ UNCHANGED <<parserVars, volVars, loaderVars, findVars, storeVars, aeVars, decodeVars, pixelVars, winLevelVars, shiftVars, validateVars, moveVars, minMaxVars, viewerVars>>

(***************************************************************************)
(* Decoding PixelData into sample buffers, load/pixeldata/*.rs, and        *)
(* ImageVolume::load_pixel_data, load/imgvol.rs.                           *)
(* Window centers and widths are f64 values counted in thousandths.        *)
(***************************************************************************)
I32Max == 2147483647
I32Min == -I32Max - 1
U16Max == 65535

\* WindowLevel::new(name, center, width, out_min, out_max); the output range
\* is kept by the name of its bounds ("f64", "i16" or "i32").
WindowLevel(name, center, width, out) ==
    [name |-> name, center |-> center, width |-> width, out |-> out]

\* What PixelDataSliceInfo::process leaves in the fields the decoders read.
BaseInfo ==
    [ cols |-> 2, rows |-> 1, num_frames |-> 1, samples_per_pixel |-> 1,
      photo_interp |-> "MONOCHROME2", planar_config |-> 0,
      bits_alloc |-> 16, pixel_rep |-> 0, big_endian |-> FALSE,
      pixel_pad |-> None, win_levels |-> <<>>, pd_bytes |-> <<>>,
      z |-> Fl(0),
      vr |-> "OW", bits_stored |-> 16, high_bit |-> 15,
      slice_thickness |-> Fl(1000), spacing_between_slices |-> Fl(0),
      pixel_spacing |-> <<Fl(500), Fl(500)>> ]

\* PixelDataSliceInfo::is_rgb / is_signed / stride
IsRgb(info) == info.photo_interp = "RGB" /\ info.samples_per_pixel = 3
IsSigned(info) == info.pixel_rep # 0
Stride(info) ==
    IF info.planar_config = 0 THEN 1
    ELSE Len(info.pd_bytes) \div info.samples_per_pixel

\* usize::try_from(num_frames).unwrap_or(1)
NumFrames(info) == IF info.num_frames < 0 THEN 1 ELSE info.num_frames

\* The number of samples the decoding loops read: len * samples.
SampleCount(info) ==
    info.cols * info.rows * NumFrames(info) * info.samples_per_pixel

\* u16::from_be_bytes / from_le_bytes of bytes[in_pos..in_pos + 2], and the
\* same bytes as an i16 (two's complement).
RawU16(bytes, in_pos, big_endian) ==
    IF big_endian THEN bytes[in_pos + 1] * 256 + bytes[in_pos + 2]
    ELSE bytes[in_pos + 2] * 256 + bytes[in_pos + 1]
\* The two bytes taken for an i16 without their sign.
RawI16NoSign(bytes, in_pos, big_endian) == RawU16(bytes, in_pos, big_endian)
RawI16(bytes, in_pos, big_endian) ==
    IF RawU16(bytes, in_pos, big_endian) >= 32768
    THEN RawU16(bytes, in_pos, big_endian) - 65536
    ELSE RawU16(bytes, in_pos, big_endian)

\* The four bytes of bytes[in_pos..in_pos + 4], most significant first.
Word(bytes, in_pos, big_endian) ==
    IF big_endian
    THEN <<bytes[in_pos + 1], bytes[in_pos + 2], bytes[in_pos + 3], bytes[in_pos + 4]>>
    ELSE <<bytes[in_pos + 4], bytes[in_pos + 3], bytes[in_pos + 2], bytes[in_pos + 1]>>
Low24(w) == (w[2] * 256 + w[3]) * 256 + w[4]
\* i32::from_be_bytes / from_le_bytes
RawI32(bytes, in_pos, big_endian) ==
    LET w == Word(bytes, in_pos, big_endian) IN
      IF w[1] >= 128 THEN (w[1] - 256) * 16777216 + Low24(w)
      ELSE w[1] * 16777216 + Low24(w)
\* u32::from_be_bytes / from_le_bytes (...).min(i32::MAX as u32) as i32
RawU32Clamped(bytes, in_pos, big_endian) ==
    LET w == Word(bytes, in_pos, big_endian) IN
      IF w[1] >= 128 THEN I32Max ELSE w[1] * 16777216 + Low24(w)

\* pixel_pad as the decoders convert it: TryInto::<i16> drops a value that
\* does not fit, Into::<i32> keeps every value.
PadAsI16(info) ==
    IF info.pixel_pad.some /\ info.pixel_pad.v <= I16Max THEN info.pixel_pad ELSE None
PadAsI32(info) == info.pixel_pad

\* A test that takes no sample for padding.
NotPadIgnoresNothing(pad, val) == TRUE

\* pixel_pad.is_none_or(|pad_val| val != pad_val)
NotPad(pad, val) == ~pad.some \/ val # pad.v

\* The state of a decoding loop: the buffer so far, the read position, the
\* running min and max, and whether indexing the bytes has panicked.
LoopStart(min, max) ==
    [buffer |-> <<>>, in_pos |-> 0, min |-> min, max |-> max, panic |-> FALSE]

\* One pass of a loop body that reads size bytes as val: push val, and fold it
\* into min and max unless it is the padding value. Slicing past the end of
\* the bytes panics.
LoopStep(acc, bytes, size, val, pad) ==
    IF acc.panic \/ acc.in_pos + size > Len(bytes)
    THEN [acc EXCEPT !.panic = TRUE]
    ELSE [buffer |-> Append(acc.buffer, val),
          in_pos |-> acc.in_pos + size,
          min |-> IF NotPad(pad, val) /\ val < acc.min THEN val ELSE acc.min,
          max |-> IF NotPad(pad, val) /\ val > acc.max THEN val ELSE acc.max,
          panic |-> FALSE]

\* PixelDataSlice::shift_i8, shift_i16 and shift_i32. The sum is made in the
\* wider type, where neither the saturating add nor the last add overflows; a
\* shifted i32 is a u32, kept as its halves.
I8Max == 127
shift_i8(val) == val + 1 + I8Max
\* A shift that leaves out the + 1.
ShiftI16NoCarry(val) == val + I16Max
shift_i16(val) == val + 1 + I16Max
shift_i32(val) ==
    IF val < 0
    THEN W32(((val + I32Max) + 1) \div 65536, ((val + I32Max) + 1) % 65536)
    ELSE W32(32768 + val \div 65536, val % 65536)
\* A u32 of the buffer as a number: a value of 2^31 or more is kept as
\* i32::MAX, it is only ever tested against i16::MAX.
U32AsInt(w) == IF w.hi >= 32768 THEN I32Max ELSE w.hi * 65536 + w.lo

\* The value one pass of each decoding loop reads at in_pos.
SampleAt(kind, info, bytes, in_pos) ==
    CASE kind = "mono8" -> bytes[in_pos + 1]
      [] kind = "mono16" ->
           IF IsSigned(info) THEN RawI16(bytes, in_pos, info.big_endian)
           ELSE Min(RawU16(bytes, in_pos, info.big_endian), I16Max)
      [] kind = "mono32" ->
           IF IsSigned(info) THEN RawI32(bytes, in_pos, info.big_endian)
           ELSE RawU32Clamped(bytes, in_pos, info.big_endian)
      [] kind = "rgb16" ->
           IF IsSigned(info) THEN shift_i16(RawI16(bytes, in_pos, info.big_endian))
           ELSE RawU16(bytes, in_pos, info.big_endian)
      [] kind = "rgb32" ->
           IF IsSigned(info) THEN U32AsInt(shift_i32(RawI32(bytes, in_pos, info.big_endian)))
           ELSE RawU32Clamped(bytes, in_pos, info.big_endian)
SampleSize(kind) ==
    CASE kind = "mono8" -> 1
      [] kind \in {"mono16", "rgb16"} -> 2
      [] kind \in {"mono32", "rgb32"} -> 4
SamplePad(kind, info) ==
    IF kind \in {"mono8", "mono16"} THEN PadAsI16(info)
    ELSE IF kind = "rgb16" THEN info.pixel_pad
    ELSE PadAsI32(info)

\* The nested for loops of the from_* constructors, n passes from acc on.
RECURSIVE DecodeLoop(_, _, _, _)
DecodeLoop(kind, info, n, acc) ==
    IF n = 0 THEN acc
    ELSE CHOOSE out \in
      { DecodeLoop(kind, info, n - 1, a)
        : a \in {LoopStep(acc, info.pd_bytes, SampleSize(kind),
                          SampleAt(kind, info, info.pd_bytes, acc.in_pos),
                          SamplePad(kind, info))} } : TRUE

\* The result of a decoder: status "Ok", "Panic" or the PixelDataError, the
\* samples, and the slice info's min_val, max_val and win_levels.
Dec(status, buffer, min, max, win_levels) ==
    [status |-> status, buffer |-> buffer, min_val |-> min, max_val |-> max,
     win_levels |-> win_levels]
Panicked(info) == Dec("Panic", <<>>, 0, 0, info.win_levels)

\* The loop over win_levels_mut() and the push of the "Min/Max" entry, given
\* minmax_center and minmax_width.
WithMinMax(win_levels, minmax_center, minmax_width, out) ==
    LET ranged == [i \in 1..Len(win_levels) |-> [win_levels[i] EXCEPT !.out = out]]
        already_has_minmax ==
            \E i \in 1..Len(ranged) :
               /\ Abs(ranged[i].width - minmax_width) < 10
               /\ Abs(ranged[i].center - minmax_center) < 10
    IN IF already_has_minmax THEN ranged
       ELSE Append(ranged, WindowLevel("Min/Max", minmax_center, minmax_width, out))

\* minmax_center of from_mono_8bit / from_mono_16bit, and of from_mono_32bit.
MinMaxCenter16(min, max) == min * 1000 + (max - min) * 500
MinMaxCenter32(min, max) == (max - min) * 500

\* PixelDataSliceI16::from_mono_8bit and from_mono_16bit
from_mono_i16(kind, info) ==
    CHOOSE out \in
      { IF acc.panic THEN Panicked(info)
        ELSE Dec("Ok", acc.buffer, acc.min, acc.max,
                 WithMinMax(info.win_levels, MinMaxCenter16(acc.min, acc.max),
                            (acc.max - acc.min) * 1000, "i16"))
        : acc \in {DecodeLoop(kind, info, SampleCount(info), LoopStart(I16Max, I16Min))} } : TRUE
from_mono_8bit(info) == from_mono_i16("mono8", info)
from_mono_16bit(info) == from_mono_i16("mono16", info)

\* PixelDataSliceI32::from_mono_32bit
from_mono_32bit(info) ==
    CHOOSE out \in
      { IF acc.panic THEN Panicked(info)
        ELSE Dec("Ok", acc.buffer, acc.min, acc.max,
                 WithMinMax(info.win_levels, MinMaxCenter32(acc.min, acc.max),
                            (acc.max - acc.min) * 1000, "i32"))
        : acc \in {DecodeLoop("mono32", info, SampleCount(info), LoopStart(I32Max, I32Min))} } : TRUE

\* PixelDataSliceU8::from_rgb_8bit: the bytes are the buffer.
from_rgb_8bit(info) ==
    LET buffer == info.pd_bytes
        vals == {buffer[i] : i \in 1..Len(buffer)}
    IN Dec("Ok", buffer,
           IF vals = {} THEN 0 ELSE CHOOSE m \in vals : \A v \in vals : m <= v,
           IF vals = {} THEN 0 ELSE CHOOSE m \in vals : \A v \in vals : m >= v,
           info.win_levels)

\* PixelDataSliceU16::from_rgb_16bit and PixelDataSliceU32::from_rgb_32bit
from_rgb_16bit(info) ==
    CHOOSE out \in
      { IF acc.panic THEN Panicked(info)
        ELSE Dec("Ok", acc.buffer, acc.min, acc.max, info.win_levels)
        : acc \in {DecodeLoop("rgb16", info, SampleCount(info), LoopStart(U16Max, 0))} } : TRUE
from_rgb_32bit(info) ==
    CHOOSE out \in
      { IF acc.panic THEN Panicked(info)
        ELSE Dec("Ok", acc.buffer, acc.min, acc.max, info.win_levels)
        : acc \in {DecodeLoop("rgb32", info, SampleCount(info), LoopStart(I32Max, 0))} } : TRUE

\* into_i16 of PixelDataSliceI32, PixelDataSliceU16 and PixelDataSliceU32:
\* i16::try_from on every sample, the first failure ending the conversion.
into_i16(decoded) ==
    CHOOSE out \in
      { IF d.status # "Ok" THEN d
        ELSE IF \E i \in 1..Len(d.buffer) : d.buffer[i] < I16Min \/ d.buffer[i] > I16Max
        THEN [d EXCEPT !.status = "PixelValueError", !.buffer = <<>>]
        ELSE d
        : d \in {decoded} } : TRUE

\* ImageVolume::load_pixel_data
load_pixel_data(info) ==
    IF info.bits_alloc \notin {8, 16, 32}
    THEN Dec("InvalidBitsAlloc", <<>>, 0, 0, info.win_levels)
    ELSE CASE info.bits_alloc = 8 /\ IsRgb(info)   -> from_rgb_8bit(info)
           [] info.bits_alloc = 8 /\ ~IsRgb(info)  -> from_mono_8bit(info)
           [] info.bits_alloc = 16 /\ IsRgb(info)  -> into_i16(from_rgb_16bit(info))
           [] info.bits_alloc = 16 /\ ~IsRgb(info) -> from_mono_16bit(info)
           [] info.bits_alloc = 32 /\ IsRgb(info)  -> into_i16(from_rgb_32bit(info))
           [] info.bits_alloc = 32 /\ ~IsRgb(info) -> into_i16(from_mono_32bit(info))

\* f64 as i16 (saturating) and u16 as i16 (wrapping), as load_slice casts the
\* slice's min_val / max_val and its pixel_pad.
SatI16(v) == IF v > I16Max THEN I16Max ELSE IF v < I16Min THEN I16Min ELSE v
WrapI16(v) == IF v > I16Max THEN v - 65536 ELSE v

\* The slice load_slice works with, from the slice info and what
\* load_pixel_data returned for it.
PdSlice(info, d) ==
    [BaseSlice EXCEPT
       !.z = info.z, !.cols = info.cols, !.rows = info.rows,
       !.stride = Stride(info), !.is_rgb = IsRgb(info),
       !.pixel_pad = IF info.pixel_pad.some THEN Some(WrapI16(info.pixel_pad.v)) ELSE None,
       !.samples_per_pixel = info.samples_per_pixel,
       !.decode_err = d.status # "Ok",
       !.min_val = SatI16(d.min_val), !.max_val = SatI16(d.max_val),
       !.buffer = d.buffer]

\* load_slice(dcmroot) for the DicomRoot that info was processed from: the
\* volume afterwards, the result, and what load_pixel_data returned. A panic
\* while decoding leaves the volume as an error at that place does.
LoadInfo(self, info) ==
    CHOOSE out \in
      { CHOOSE out2 \in
          { [vol |-> r.vol, decoded |-> d,
             result |-> IF r.result = "DecodeError" /\ d.status = "Panic"
                        THEN "Panic" ELSE r.result]
            : r \in {LoadSlice(self, PdSlice(info, d))} } : TRUE
        : d \in {load_pixel_data(info)} } : TRUE

\* The bytes of a 16-bit and of a 32-bit sample in a byte order.
Enc16(v, big_endian) ==
    IF big_endian THEN <<(v \div 256) % 256, v % 256>>
    ELSE <<v % 256, (v \div 256) % 256>>
Enc32(v, big_endian) ==
    IF big_endian
    THEN <<(v \div 16777216) % 256, (v \div 65536) % 256, (v \div 256) % 256, v % 256>>
    ELSE <<v % 256, (v \div 256) % 256, (v \div 65536) % 256, (v \div 16777216) % 256>>

\* Window levels a slice may bring along: none, the level that spans the
\* samples 2048 and 4095, one within a hundredth of it, and another one.
WinLevelLists ==
    { <<>>,
      <<WindowLevel("winlevel_0", 3071500, 2047000, "f64")>>,
      <<WindowLevel("winlevel_0", 3071505, 2047000, "f64")>>,
      <<WindowLevel("winlevel_0", 40000, 400000, "f64")>> }

\* The slices given to the decoders: two monochrome samples of 8, 16 or 32
\* bits, one RGB pixel, an unsupported BitsAllocated and a PixelData that is
\* shorter than rows and columns say.
Mono16Infos ==
    { [BaseInfo EXCEPT !.pixel_rep = rep, !.big_endian = be, !.pixel_pad = pad,
                       !.win_levels = wl,
                       !.pd_bytes = Enc16(a, be) \o Enc16(b, be)]
      : rep \in {0, 1}, be \in BOOLEAN,
        pad \in {None, Some(2048), Some(63536)}, wl \in WinLevelLists,
        a \in {0, 2048, 4095, 63536}, b \in {2048, 4095, 63536} }
Mono8Infos ==
    { [BaseInfo EXCEPT !.bits_alloc = 8, !.pixel_pad = pad, !.win_levels = wl,
                       !.pd_bytes = <<a, b>>]
      : pad \in {None, Some(8)}, wl \in WinLevelLists,
        a \in {0, 8, 255}, b \in {8, 255} }
Mono32Infos ==
    { [BaseInfo EXCEPT !.bits_alloc = 32, !.pixel_rep = rep, !.big_endian = be,
                       !.pixel_pad = pad, !.win_levels = wl,
                       !.pd_bytes = Enc32(a, be) \o Enc32(b, be)]
      : rep \in {0, 1}, be \in BOOLEAN, pad \in {None, Some(2048)},
        wl \in WinLevelLists,
        a \in {0, 2048, 4095, 40000, 4294}, b \in {4095, 100} }
    \cup
    { [BaseInfo EXCEPT !.bits_alloc = 32, !.pixel_rep = 1, !.big_endian = be,
                       !.pixel_pad = pad, !.win_levels = wl,
                       !.pd_bytes = Enc32(a, be) \o Enc32(b, be)]
      : be \in BOOLEAN, pad \in {None, Some(2048)}, wl \in WinLevelLists,
        a \in {-2000, -40000}, b \in {4095, 100} }
RgbInfos ==
    { [BaseInfo EXCEPT !.cols = 1, !.samples_per_pixel = 3, !.photo_interp = "RGB",
                       !.bits_alloc = 8, !.pd_bytes = <<1, 200, 3>>],
      [BaseInfo EXCEPT !.cols = 1, !.samples_per_pixel = 3, !.photo_interp = "RGB",
                       !.pd_bytes = Enc16(1, FALSE) \o Enc16(2, FALSE) \o Enc16(3, FALSE)],
      [BaseInfo EXCEPT !.cols = 1, !.samples_per_pixel = 3, !.photo_interp = "RGB",
                       !.pd_bytes = Enc16(1, FALSE) \o Enc16(40000, FALSE) \o Enc16(3, FALSE)],
      [BaseInfo EXCEPT !.cols = 1, !.samples_per_pixel = 3, !.photo_interp = "RGB",
                       !.pixel_rep = 1,
                       !.pd_bytes = Enc16(32768, FALSE) \o Enc16(32769, FALSE) \o Enc16(0, FALSE)],
      [BaseInfo EXCEPT !.cols = 1, !.samples_per_pixel = 3, !.photo_interp = "RGB",
                       !.bits_alloc = 32, !.big_endian = TRUE,
                       !.pd_bytes = Enc32(1, TRUE) \o Enc32(2, TRUE) \o Enc32(70000, TRUE)],
      [BaseInfo EXCEPT !.cols = 1, !.samples_per_pixel = 3, !.photo_interp = "RGB",
                       !.bits_alloc = 32, !.pixel_rep = 1,
                       !.pd_bytes = Enc32(I32Min, FALSE) \o Enc32(I32Min + 7, FALSE)
                                    \o Enc32(5, FALSE)] }
OddInfos ==
    { [BaseInfo EXCEPT !.bits_alloc = 12, !.pd_bytes = <<1, 2, 3, 4>>],
      [BaseInfo EXCEPT !.pd_bytes = <<1, 2, 3>>],
      [BaseInfo EXCEPT !.num_frames = -1, !.pd_bytes = <<1, 2, 3, 4>>] }
DecodeInfos == Mono16Infos \cup Mono8Infos \cup Mono32Infos \cup RgbInfos \cup OddInfos

InitDecode ==
    /\ dcPc = "idle"
    /\ dcInfo = BaseInfo
    /\ dcDecoded = Dec("None", <<>>, 0, 0, <<>>)
    /\ dcVol = DefaultVolume
    /\ dcResult = "None"

\* A DicomRoot is processed into a slice info.
DcProcess ==
    /\ dcPc = "idle"
    /\ \E info \in DecodeInfos : dcInfo' = info
    /\ dcPc' = "processed"
    /\ UNCHANGED <<dcDecoded, dcVol, dcResult>>
    /\ UNCHANGED <<parserVars, volVars, loaderVars, findVars, storeVars, aeVars, readerVars, pixelVars, winLevelVars, shiftVars, validateVars, moveVars, minMaxVars, viewerVars>>

\* load_slice of that slice into an empty volume.
DcLoadSlice ==
    /\ dcPc = "processed"
    /\ \E r \in {LoadInfo(dcVol, dcInfo)} :
         /\ dcVol' = r.vol
         /\ dcDecoded' = r.decoded
         /\ dcResult' = r.result
    /\ dcPc' = "loaded"
    /\ UNCHANGED dcInfo
    /\ UNCHANGED <<parserVars, volVars, loaderVars, findVars, storeVars, aeVars, readerVars, pixelVars, winLevelVars, shiftVars, validateVars, moveVars, minMaxVars, viewerVars>>

(***************************************************************************)
(* ImageVolume::get_pixel, slice_iter and ImageVolumeAxisSliceIter,        *)
(* load/imgvol.rs. A volume is loaded by a few calls of load_slice, and    *)
(* then either one pixel is asked for or one plane is iterated by a for    *)
(* loop, which stops at the first None. Pixel values are in thousandths.   *)
(***************************************************************************)
MaxPxLoads == 2     \* calls of load_slice before the volume is read

VolAxes == {"X", "Y", "Z"}

\* ImageVolume::axis_dims: (width, height, depth) oriented to the axis.
axis_dims(self, axis) ==
    CASE axis = "X" -> <<self.dims.counts[2], self.dims.counts[3], self.dims.counts[1]>>
      [] axis = "Y" -> <<self.dims.counts[1], self.dims.counts[3], self.dims.counts[2]>>
      [] axis = "Z" -> <<self.dims.counts[1], self.dims.counts[2], self.dims.counts[3]>>

\* ImageVolume::rescale
rescale(self, val) == val * self.slope.v + self.intercept.v

VolPixel(coord, r, g, b) == [status |-> "Ok", coord |-> coord, r |-> r, g |-> g, b |-> b]
PixelErr(e, coord) == [status |-> e, coord |-> coord, r |-> 0, g |-> 0, b |-> 0]
NoPixel == PixelErr("None", <<0, 0, 0>>)

\* ImageVolume::get_pixel(coord), coord = (x, y, z) counted from 0.
get_pixel(self, coord) ==
    IF coord[3] >= Len(self.slices) THEN PixelErr("InvalidDims", coord)
    ELSE CHOOSE out \in
      { IF pixel_count >= Len(buffer)
           \/ (self.is_rgb /\ pixel_count + self.stride * 2 >= Len(buffer))
        THEN PixelErr("InvalidPixelSource", coord)
        ELSE IF self.is_rgb
        THEN VolPixel(coord, buffer[pixel_count + 1] * 1000,
                      buffer[pixel_count + self.stride + 1] * 1000,
                      buffer[pixel_count + self.stride * 2 + 1] * 1000)
        ELSE VolPixel(coord, rescale(self, buffer[pixel_count + 1]),
                      rescale(self, buffer[pixel_count + 1]),
                      rescale(self, buffer[pixel_count + 1]))
        : pixel_count \in {(coord[1] + coord[2] * self.dims.counts[1]) * self.samples_per_pixel},
          buffer \in {self.slices[coord[3] + 1]} } : TRUE

\* ImageVolumeAxisSliceIter::compute_coord
NoCoord == <<-1, -1, -1>>
PlaneCoord(axis, axis_index, col, row) ==
    CASE axis = "X" -> <<axis_index, col, row>>
      [] axis = "Y" -> <<col, axis_index, row>>
      [] axis = "Z" -> <<col, row, axis_index>>
compute_coord(self, axis, axis_index, index) ==
    LET cols == axis_dims(self, axis)[1]
        rows == axis_dims(self, axis)[2]
    IN IF index >= rows * cols THEN NoCoord
       ELSE PlaneCoord(axis, axis_index, index % cols, (index \div cols) % rows)

\* The slices the volume is loaded from: 2x2 monochrome slices at three z, one
\* of them with a PixelPaddingValue, and 2x2 RGB slices of both planar
\* configurations, of 8 and of 16 bits. An RGB sample is 10 * pixel + channel.
Mono2x2(z, a) ==
    [BaseInfo EXCEPT !.cols = 2, !.rows = 2, !.z = Fl(z),
                     !.pd_bytes = Enc16(a, FALSE) \o Enc16(a + 1, FALSE)
                                  \o Enc16(a + 2, FALSE) \o Enc16(a + 3, FALSE)]
Rgb2x2(z, bits, planar, bytes) ==
    [BaseInfo EXCEPT !.cols = 2, !.rows = 2, !.z = Fl(z), !.samples_per_pixel = 3,
                     !.photo_interp = "RGB", !.bits_alloc = bits,
                     !.planar_config = planar, !.pd_bytes = bytes]
Interleaved == <<0, 1, 2, 10, 11, 12, 20, 21, 22, 30, 31, 32>>
Planar == <<0, 10, 20, 30, 1, 11, 21, 31, 2, 12, 22, 32>>
RECURSIVE Words16(_)
Words16(s) == IF s = <<>> THEN <<>> ELSE Enc16(Head(s), FALSE) \o Words16(Tail(s))
PxInfos ==
    { Mono2x2(0, 10), Mono2x2(1000, 20),
      [Mono2x2(2000, 30) EXCEPT !.pixel_pad = Some(30)],
      Rgb2x2(0, 8, 0, Interleaved), Rgb2x2(1000, 8, 0, Interleaved),
      Rgb2x2(0, 8, 1, Planar),
      Rgb2x2(0, 16, 1, Words16(Planar)) }

InitPixel ==
    /\ pxPc = "loading"
    /\ pxVol = DefaultVolume
    /\ pxLoads = 0
    /\ pxPlanar = 0
    /\ pxPixel = NoPixel
    /\ itAxis = "Z"
    /\ itIndex = 0
    /\ itCount = 0
    /\ itOut = <<>>

\* load_slice of one more slice; the first slice sets the format of the
\* volume, its PlanarConfiguration included.
PxLoad ==
    /\ pxPc = "loading"
    /\ pxLoads < MaxPxLoads
    /\ \E info \in PxInfos :
         \E r \in {LoadInfo(pxVol, info)} :
            /\ pxVol' = r.vol
            /\ pxPlanar' = IF Len(pxVol.infos) = 0 THEN info.planar_config ELSE pxPlanar
    /\ pxLoads' = pxLoads + 1
    /\ UNCHANGED <<pxPc, pxPixel, itAxis, itIndex, itCount, itOut>>
    /\ UNCHANGED <<parserVars, volVars, loaderVars, findVars, storeVars, aeVars, readerVars,
                   decodeVars, winLevelVars, shiftVars, validateVars, moveVars, minMaxVars, viewerVars>>

\* One call of get_pixel.
PxGetPixel ==
    /\ pxPc = "loading"
    /\ pxLoads > 0
    /\ \E x \in 0..2, y \in 0..2, z \in 0..2 :
         pxPixel' = get_pixel(pxVol, <<x, y, z>>)
    /\ pxPc' = "got"
    /\ UNCHANGED <<pxVol, pxLoads, pxPlanar, itAxis, itIndex, itCount, itOut>>
    /\ UNCHANGED <<parserVars, volVars, loaderVars, findVars, storeVars, aeVars, readerVars,
                   decodeVars, winLevelVars, shiftVars, validateVars, moveVars, minMaxVars, viewerVars>>

\* slice_iter(axis, axis_index)
SliceIterOpen ==
    /\ pxPc = "loading"
    /\ pxLoads > 0
    /\ \E axis \in VolAxes, axis_index \in 0..2 :
         /\ itAxis' = axis
         /\ itIndex' = axis_index
    /\ itCount' = 0
    /\ itOut' = <<>>
    /\ pxPc' = "iterating"
    /\ UNCHANGED <<pxVol, pxLoads, pxPlanar, pxPixel>>
    /\ UNCHANGED <<parserVars, volVars, loaderVars, findVars, storeVars, aeVars, readerVars,
                   decodeVars, winLevelVars, shiftVars, validateVars, moveVars, minMaxVars, viewerVars>>

\* One next() of the iterator; the loop ends when it returns None.
SliceIterNext ==
    /\ pxPc = "iterating"
    /\ \E coord \in {compute_coord(pxVol, itAxis, itIndex, itCount)} :
         IF coord = NoCoord
         THEN /\ pxPc' = "ended"
              /\ UNCHANGED <<itCount, itOut, pxPixel>>
         ELSE \E p \in {get_pixel(pxVol, coord)} :
                /\ itCount' = itCount + 1
                /\ pxPixel' = p
                /\ IF p.status = "Ok"
                   THEN itOut' = Append(itOut, p) /\ pxPc' = pxPc
                   ELSE itOut' = itOut /\ pxPc' = "ended"
    /\ UNCHANGED <<pxVol, pxLoads, pxPlanar, itAxis, itIndex>>
    /\ UNCHANGED <<parserVars, volVars, loaderVars, findVars, storeVars, aeVars, readerVars,
                   decodeVars, winLevelVars, shiftVars, validateVars, moveVars, minMaxVars, viewerVars>>

(***************************************************************************)
(* WindowLevel::apply, load/pixeldata/winlevel.rs (f32) and                *)
(* core/pixeldata/pdwinlevel.rs (f64). Center, width and the value are in  *)
(* thousandths and the arithmetic is exact; the result is a fraction of    *)
(* output units.                                                           *)
(***************************************************************************)
RECURSIVE GCD(_, _)
GCD(a, b) == IF b = 0 THEN a ELSE GCD(b, a % b)
\* A fraction in lowest terms; the denominator is above 0.
Frac(num, den) ==
    CHOOSE out \in { [num |-> num \div g, den |-> den \div g] : g \in {GCD(Abs(num), den)} } : TRUE
FracEq(a, b) == a.num * b.den = b.num * a.den

\* out_min and out_max of a window level by the range it was given.
OutMin(self) == IF self.out = "u8" THEN 0 ELSE I16Min
OutMax(self) == IF self.out = "u8" THEN 255 ELSE I16Max

\* apply with the center not moved by 0.5 and the width not reduced by 1.
ApplyNoShift(self, value) ==
    CHOOSE out \in
      { IF value <= self.center - half_width THEN Frac(OutMin(self), 1)
        ELSE IF value > self.center + half_width THEN Frac(OutMax(self), 1)
        ELSE Frac((2 * (value - self.center) + self.width) * (OutMax(self) - OutMin(self))
                    + OutMin(self) * 2 * self.width,
                  2 * self.width)
        : half_width \in {self.width \div 2} } : TRUE

\* WindowLevel::apply
apply(self, value) ==
    CHOOSE out \in
      { IF value <= center - half_width THEN Frac(OutMin(self), 1)
        ELSE IF value > center + half_width THEN Frac(OutMax(self), 1)
        ELSE Frac((2 * (value - center) + width) * (OutMax(self) - OutMin(self))
                    + OutMin(self) * 2 * width,
                  2 * width)
        : center \in {self.center - 500}, width \in {self.width - 1000},
          half_width \in {(self.width - 1000) \div 2} } : TRUE

\* The window levels and the values apply is called with: widths below, at
\* and above 1, and values every quarter around the window.
WlCenters == {0, 1000, 2500}
WlWidths == {-1000, 0, 500, 1000, 2000, 3000}
WlValues == {250 * k : k \in -8..20}

InitWinLevel ==
    /\ wlPc = "idle"
    /\ wlLevel = WindowLevel("", 0, 0, "u8")
    /\ wlValue = 0
    /\ wlResult = Frac(0, 1)

\* WindowLevel::new
WlNew ==
    /\ wlPc = "idle"
    /\ \E c \in WlCenters, w \in WlWidths, out \in {"u8", "i16"} :
         wlLevel' = WindowLevel("", c, w, out)
    /\ wlPc' = "chosen"
    /\ UNCHANGED <<wlValue, wlResult>>
    /\ UNCHANGED <<parserVars, volVars, loaderVars, findVars, storeVars,
                   aeVars, readerVars, decodeVars, pixelVars, shiftVars, validateVars, moveVars, minMaxVars, viewerVars>>

\* One call of apply.
WlApply ==
    /\ wlPc = "chosen"
    /\ \E v \in WlValues :
         /\ wlValue' = v
         /\ wlResult' = apply(wlLevel, v)
    /\ wlPc' = "applied"
    /\ UNCHANGED wlLevel
    /\ UNCHANGED <<parserVars, volVars, loaderVars, findVars, storeVars,
                   aeVars, readerVars, decodeVars, pixelVars, shiftVars, validateVars, moveVars, minMaxVars, viewerVars>>

(***************************************************************************)
(* The signed-to-unsigned shifts applied to two values of one width.       *)
(***************************************************************************)
\* Values of a width: the ends of the range, the values around 0 and some
\* in between.
SignedMax(bits) == CASE bits = 8 -> I8Max [] bits = 16 -> I16Max [] bits = 32 -> I32Max
SignedMin(bits) == -SignedMax(bits) - 1
ShiftValues(bits) ==
    {SignedMin(bits) + k : k \in 0..2}
    \cup {SignedMax(bits) - k : k \in 0..2}
    \cup (-2..2) \cup {-100, 100, -(SignedMax(bits) \div 2), SignedMax(bits) \div 2}

shift(bits, val) ==
    CASE bits = 8 -> shift_i8(val)
      [] bits = 16 -> shift_i16(val)
      [] bits = 32 -> shift_i32(val)

InitShift ==
    /\ shPc = "idle"
    /\ shBits = 8
    /\ shVal = <<0, 0>>
    /\ shOut = <<0, 0>>

\* Two values of a width are taken.
ShChoose ==
    /\ shPc = "idle"
    /\ \E bits \in {8, 16, 32} :
         /\ shBits' = bits
         /\ \E a \in ShiftValues(bits), b \in ShiftValues(bits) : shVal' = <<a, b>>
    /\ shPc' = "chosen"
    /\ UNCHANGED shOut
    /\ UNCHANGED <<parserVars, volVars, loaderVars, findVars, storeVars,
                   aeVars, readerVars, decodeVars, pixelVars, winLevelVars, validateVars, moveVars, minMaxVars, viewerVars>>

\* Both are shifted.
ShShift ==
    /\ shPc = "chosen"
    /\ shOut' = <<shift(shBits, shVal[1]), shift(shBits, shVal[2])>>
    /\ shPc' = "shifted"
    /\ UNCHANGED <<shBits, shVal>>
    /\ UNCHANGED <<parserVars, volVars, loaderVars, findVars, storeVars,
                   aeVars, readerVars, decodeVars, pixelVars, winLevelVars, validateVars, moveVars, minMaxVars, viewerVars>>

(***************************************************************************)
(* PixelDataSliceInfo::validate and PixelDataSliceInfo::load_pixel_data,   *)
(* load/pixeldata/pdinfo.rs.                                               *)
(***************************************************************************)
\* VolDims::is_valid_dim
is_valid_dim(dim) == ~dim.nan /\ dim.v > 0

\* PhotoInterp::is_rgb / is_monochrome; "none" is an absent
\* PhotometricInterpretation, any other string an unsupported one.
PhotoIsRgb(pi) == pi = "RGB"
PhotoIsMonochrome(pi) == pi \in {"MONOCHROME1", "MONOCHROME2"}

Validated(result, info) == [result |-> result, info |-> info]

\* A validate that lets any SamplesPerPixel through.
ValidateNoPairing(self) ==
    IF Len(self.pd_bytes) = 0 THEN Validated("MissingPixelData", self)
    ELSE IF self.cols = 0 \/ self.rows = 0 THEN Validated("InvalidSize", self)
    ELSE IF self.vr \notin {"OB", "OW"} THEN Validated("InvalidVR", self)
    ELSE IF self.bits_alloc \notin {8, 16, 32} THEN Validated("InvalidBitsAlloc", self)
    ELSE Validated("Ok", self)

\* A validate that leaves BitsStored and HighBit as they are.
ValidateNoCoercion(self) ==
    IF Len(self.pd_bytes) = 0 THEN Validated("MissingPixelData", self)
    ELSE IF self.cols = 0 \/ self.rows = 0 THEN Validated("InvalidSize", self)
    ELSE IF self.vr \notin {"OB", "OW"} THEN Validated("InvalidVR", self)
    ELSE IF self.bits_alloc \notin {8, 16, 32} THEN Validated("InvalidBitsAlloc", self)
    ELSE IF self.photo_interp # "none"
            /\ \/ PhotoIsRgb(self.photo_interp) /\ self.samples_per_pixel # 3
               \/ PhotoIsMonochrome(self.photo_interp) /\ self.samples_per_pixel # 1
    THEN Validated("InvalidPhotoInterpSamples", self)
    ELSE Validated("Ok", self)

\* PixelDataSliceInfo::validate
validate(self) ==
    IF Len(self.pd_bytes) = 0 THEN Validated("MissingPixelData", self)
    ELSE IF self.cols = 0 \/ self.rows = 0 THEN Validated("InvalidSize", self)
    ELSE IF self.vr \notin {"OB", "OW"} THEN Validated("InvalidVR", self)
    ELSE IF self.bits_alloc \notin {8, 16, 32} THEN Validated("InvalidBitsAlloc", self)
    ELSE CHOOSE out \in
      { CHOOSE out2 \in
        { IF b.photo_interp # "none"
             /\ \/ PhotoIsRgb(b.photo_interp) /\ b.samples_per_pixel # 3
                \/ PhotoIsMonochrome(b.photo_interp) /\ b.samples_per_pixel # 1
          THEN Validated("InvalidPhotoInterpSamples", b)
          ELSE IF ~is_valid_dim(b.slice_thickness) /\ ~is_valid_dim(b.spacing_between_slices)
          THEN Validated("InvalidDims", b)
          ELSE IF ~is_valid_dim(b.pixel_spacing[1]) \/ ~is_valid_dim(b.pixel_spacing[2])
          THEN Validated("InvalidDims", b)
          ELSE Validated("Ok", b)
          : b \in { IF a.high_bit > a.bits_alloc - 1 \/ a.high_bit < a.bits_stored - 1
                    THEN [a EXCEPT !.high_bit = a.bits_stored - 1] ELSE a } } : TRUE
        : a \in { IF self.bits_stored > self.bits_alloc \/ self.bits_stored = 0
                  THEN [self EXCEPT !.bits_stored = self.bits_alloc] ELSE self } } : TRUE

\* PixelDataSliceInfo::load_pixel_data: validate, then the decoder by
\* BitsAllocated and is_rgb.
pdinfo_load_pixel_data(self) ==
    CHOOSE out \in
      { IF v.result # "Ok" THEN Dec(v.result, <<>>, 0, 0, self.win_levels)
        ELSE CASE v.info.bits_alloc = 8 /\ IsRgb(v.info)   -> from_rgb_8bit(v.info)
               [] v.info.bits_alloc = 8 /\ ~IsRgb(v.info)  -> from_mono_8bit(v.info)
               [] v.info.bits_alloc = 16 /\ IsRgb(v.info)  -> from_rgb_16bit(v.info)
               [] v.info.bits_alloc = 16 /\ ~IsRgb(v.info) -> from_mono_16bit(v.info)
               [] v.info.bits_alloc = 32 /\ IsRgb(v.info)  -> from_rgb_32bit(v.info)
               [] v.info.bits_alloc = 32 /\ ~IsRgb(v.info) -> from_mono_32bit(v.info)
        : v \in {validate(self)} } : TRUE

\* The slice infos validate is given: each field at, below and above what it
\* is to be, and PixelData that is absent, complete for one sample per pixel,
\* complete for three, or cut short.
ValidateInfos ==
    { [BaseInfo EXCEPT !.pd_bytes = bytes, !.cols = cols, !.vr = vr,
                       !.bits_alloc = alloc, !.bits_stored = stored, !.high_bit = high,
                       !.photo_interp = pi, !.samples_per_pixel = spp,
                       !.slice_thickness = sp[1], !.spacing_between_slices = sp[2],
                       !.pixel_spacing = <<Fl(500), sp[3]>>]
      : bytes \in { <<>>, <<1, 2, 3, 4>>, <<1, 2, 3>>,
                    <<1, 0, 2, 0, 3, 0, 4, 0, 5, 0, 6, 0>> },
        cols \in {0, 2}, vr \in {"OB", "OW", "UN"},
        alloc \in {8, 16, 32, 12}, stored \in {0, 12, 16, 40}, high \in {0, 11, 15, 40},
        pi \in {"none", "RGB", "MONOCHROME1", "MONOCHROME2", "YBR_FULL"},
        spp \in {1, 3},
        sp \in { <<Fl(1000), Fl(0), Fl(500)>>, <<Fl(0), Fl(1000), Fl(500)>>,
                 <<NaN, Fl(0), Fl(500)>>, <<Fl(1000), Fl(1000), Fl(0)>> } }

InitValidate ==
    /\ vdPc = "idle"
    /\ vdInfo = BaseInfo
    /\ vdValid = Validated("None", BaseInfo)
    /\ vdDecoded = Dec("None", <<>>, 0, 0, <<>>)

\* A dataset is processed into a slice info.
VdProcess ==
    /\ vdPc = "idle"
    /\ \E info \in ValidateInfos : vdInfo' = info
    /\ vdPc' = "processed"
    /\ UNCHANGED <<vdValid, vdDecoded>>
    /\ UNCHANGED <<parserVars, volVars, loaderVars, findVars, storeVars,
                   aeVars, readerVars, decodeVars, pixelVars, winLevelVars, shiftVars, moveVars, minMaxVars, viewerVars>>

\* load_pixel_data(self) on it.
VdLoadPixelData ==
    /\ vdPc = "processed"
    /\ vdValid' = validate(vdInfo)
    /\ vdDecoded' = pdinfo_load_pixel_data(vdInfo)
    /\ vdPc' = "loaded"
    /\ UNCHANGED vdInfo
    /\ UNCHANGED <<parserVars, volVars, loaderVars, findVars, storeVars,
                   aeVars, readerVars, decodeVars, pixelVars, winLevelVars, shiftVars, moveVars, minMaxVars, viewerVars>>

(***************************************************************************)
(* PixelData bytes taken out of the elements: load::pixeldata's process    *)
(* works on the element tree, core::pixeldata's process_dcm_parser on the  *)
(* elements a parser yields.  A PixelData element is its vr, its own data  *)
(* and the data of its child items; an element of undefined length has no  *)
(* data of its own, its value is its items.                                *)
(***************************************************************************)
MaxItems == 3
Fragments == {<<>>, <<5>>, <<6, 7>>}
PdElem(vr, data, items) == [present |-> TRUE, vr |-> vr, data |-> data, items |-> items]
NoPdElem == [present |-> FALSE, vr |-> "OB", data |-> <<>>, items |-> <<>>]
PdElems ==
    {NoPdElem}
        \cup {PdElem(vr, data, <<>>) :
                vr \in {"OB", "OW"}, data \in {<<>>, <<1, 2>>, <<1, 2, 3, 4>>}}
        \cup {PdElem(vr, <<>>, items) :
                vr \in {"OB", "OW"}, items \in SeqsUpTo(Fragments, MaxItems) \ {<<>>}}

\* DicomElement::has_fragments: the element's children are fragment items.
has_fragments(elem) == Len(elem.items) > 0

\* An append that copies: the source keeps its bytes.
AppendCopy(dst, src) == [dst |-> dst \o src, src |-> src]

\* Vec::append: every byte of src is moved to the end of dst, src is left
\* empty (shrink_to(0) then only gives its capacity back).
append(dst, src) == [dst |-> dst \o src, src |-> <<>>]

\* std::mem::swap.
swap(a, b) == [a |-> b, b |-> a]

\* The loop over iter_items_mut(): the items from i on appended in order.
RECURSIVE AppendItems(_, _, _)
AppendItems(pd_bytes, items, i) ==
    IF i > Len(items) THEN [pd_bytes |-> pd_bytes, items |-> items]
    ELSE CHOOSE out \in {AppendItems(r.dst, [items EXCEPT ![i] = r.src], i + 1) :
                          r \in {append(pd_bytes, items[i])}} : TRUE

\* The end of PixelDataSliceInfo::process: the element left in the tree, and
\* the vr and pd_bytes of the slice info.
process(elem) ==
    IF ~elem.present THEN [elem |-> elem, vr |-> "OB", pd_bytes |-> <<>>]
    ELSE IF has_fragments(elem)
    THEN LET r == AppendItems(<<>>, elem.items, 1)
         IN  [elem |-> [elem EXCEPT !.items = r.items],
              vr |-> elem.vr, pd_bytes |-> r.pd_bytes]
    ELSE LET s == swap(<<>>, elem.data)
         IN  [elem |-> [elem EXCEPT !.data = s.b], vr |-> elem.vr, pd_bytes |-> s.a]

\* core::pixeldata's process_pixdata_element on one yielded element.
process_pixdata_element(pd_bytes, data) ==
    IF pd_bytes = <<>>
    THEN LET s == swap(pd_bytes, data) IN [pd_bytes |-> s.a, data |-> s.b]
    ELSE LET r == append(pd_bytes, data) IN [pd_bytes |-> r.dst, data |-> r.src]

\* The elements a parser yields for which is_pixel_data() or
\* is_within_pixel_data() holds: the PixelData element, then its items.
PixelDataStream(elem) == IF elem.present THEN <<elem.data>> \o elem.items ELSE <<>>

InitMove ==
    /\ mvPc = "idle"
    /\ mvOrig = NoPdElem
    /\ mvRoot = NoPdElem
    /\ mvVr = "OB"
    /\ mvBytes = <<>>
    /\ mvStream = <<>>
    /\ mvIdx = 1
    /\ mvCoreBytes = <<>>

\* A dataset is parsed.
MvParse ==
    /\ mvPc = "idle"
    /\ \E elem \in PdElems :
        /\ mvOrig' = elem
        /\ mvRoot' = elem
        /\ mvStream' = PixelDataStream(elem)
    /\ mvPc' = "parsed"
    /\ UNCHANGED <<mvVr, mvBytes, mvIdx, mvCoreBytes>>
    /\ UNCHANGED <<parserVars, volVars, loaderVars, findVars, storeVars,
                   aeVars, readerVars, decodeVars, pixelVars, winLevelVars, shiftVars, validateVars, minMaxVars, viewerVars>>

\* PixelDataSliceInfo::process on the element tree.
MvProcess ==
    /\ mvPc = "parsed"
    /\ \E r \in {process(mvRoot)} :
        /\ mvRoot' = r.elem
        /\ mvVr' = r.vr
        /\ mvBytes' = r.pd_bytes
    /\ mvPc' = "processed"
    /\ UNCHANGED <<mvOrig, mvStream, mvIdx, mvCoreBytes>>
    /\ UNCHANGED <<parserVars, volVars, loaderVars, findVars, storeVars,
                   aeVars, readerVars, decodeVars, pixelVars, winLevelVars, shiftVars, validateVars, minMaxVars, viewerVars>>

\* One turn of process_dcm_parser's loop on a PixelData element or item.
MvParserStep ==
    /\ mvPc # "idle"
    /\ mvIdx <= Len(mvStream)
    /\ \E r \in {process_pixdata_element(mvCoreBytes, mvStream[mvIdx])} :
        /\ mvCoreBytes' = r.pd_bytes
        /\ mvStream' = [mvStream EXCEPT ![mvIdx] = r.data]
    /\ mvIdx' = mvIdx + 1
    /\ UNCHANGED <<mvPc, mvOrig, mvRoot, mvVr, mvBytes>>
    /\ UNCHANGED <<parserVars, volVars, loaderVars, findVars, storeVars,
                   aeVars, readerVars, decodeVars, pixelVars, winLevelVars, shiftVars, validateVars, minMaxVars, viewerVars>>

(***************************************************************************)
(* ImageVolume::minmax_winlevel, load/imgvol.rs.  min_val and max_val are  *)
(* i16 and so are the difference and the sum computed from them: an        *)
(* arithmetic overflow panics in a build with overflow checks (debug) and  *)
(* wraps in one without (release).                                         *)
(***************************************************************************)
MaxMmLoads == 2

\* i16 wrapping of a result, and Rust's integer division (towards zero).
WrappingI16(v) == ((v + 32768) % 65536) - 32768
TruncDiv(a, b) == IF a >= 0 THEN a \div b ELSE -((-a) \div b)
InI16(v) == I16Min <= v /\ v <= I16Max

\* The least and greatest value of the slices that are loaded, as the decoder
\* reports them; a slice of padding only reports i16::MAX and i16::MIN.
MinMaxPairs ==
    { <<0, 10>>, <<-5, -5>>, <<0, I16Max>>, <<I16Min, -1>>, <<-20000, 20000>>,
      <<I16Min, I16Max>>, <<I16Max, I16Min>> }
MinMaxSlices ==
    { [BaseSlice EXCEPT !.z = Fl(z), !.min_val = p[1], !.max_val = p[2],
                        !.buffer = <<p[1], p[2]>>] :
        z \in {0, 1000}, p \in MinMaxPairs }

MinMaxOut(status, width, center, win) ==
    [status |-> status, width |-> width, center |-> center, win |-> win]
NotCalledMinMax == MinMaxOut("None", 0, 0, WindowLevel("", 0, 0, "f64"))

\* ImageVolume::minmax_winlevel; checks is whether the build checks overflow.
minmax_winlevel(self, checks) ==
    LET min == self.min_val
        max == self.max_val
        width == WrappingI16(max - min)
        center == WrappingI16(min + TruncDiv(width, 2))
    IN  IF checks /\ (~InI16(max - min) \/ ~InI16(min + TruncDiv(width, 2)))
        THEN MinMaxOut("Panic", 0, 0, WindowLevel("", 0, 0, "f64"))
        ELSE MinMaxOut("Ok", width, center,
                       WindowLevel("", rescale(self, center), rescale(self, width), "f64"))

InitMinMax ==
    /\ mmPc = "loading"
    /\ mmVol = DefaultVolume
    /\ mmLoads = 0
    /\ mmOut = NotCalledMinMax

\* load_slice of one more slice.
MmLoadSlice ==
    /\ mmPc = "loading"
    /\ mmLoads < MaxMmLoads
    /\ \E s \in MinMaxSlices : mmVol' = LoadSlice(mmVol, s).vol
    /\ mmLoads' = mmLoads + 1
    /\ UNCHANGED <<mmPc, mmOut>>
    /\ UNCHANGED <<parserVars, volVars, loaderVars, findVars, storeVars,
                   aeVars, readerVars, decodeVars, pixelVars, winLevelVars, shiftVars, validateVars, moveVars, viewerVars>>

\* minmax_winlevel() on the volume as it is.
MmMinMaxWinLevel ==
    /\ mmPc = "loading"
    /\ \E checks \in BOOLEAN : mmOut' = minmax_winlevel(mmVol, checks)
    /\ mmPc' = "called"
    /\ UNCHANGED <<mmVol, mmLoads>>
    /\ UNCHANGED <<parserVars, volVars, loaderVars, findVars, storeVars,
                   aeVars, readerVars, decodeVars, pixelVars, winLevelVars, shiftVars, validateVars, moveVars, viewerVars>>

(***************************************************************************)
(* The image viewer, medicom_tools app/viewapp.rs: the thread spawned by   *)
(* ImageViewer::new runs load_files, the UI thread runs update once for    *)
(* every frame.  They share three egui::mutex::Mutex: vol_cache, failed    *)
(* and image_files.  Such a mutex is not reentrant and is not poisoned;    *)
(* its guard unlocks it when dropped, also while a panic unwinds.          *)
(* All files are of one series.                                            *)
(***************************************************************************)
MaxFiles  == 2      \* files of the input directory
MaxFrames == 2      \* frames the UI draws

Mutexes == {"vol_cache", "failed", "image_files"}
Threads == {"loader", "ui"}

\* What loading a file does: File::open fails, DicomRoot::parse fails, parse
\* finds no dataset, load_slice fails, load_slice panics, or the slice loads.
FileKinds == {"open_err", "parse_err", "no_dicom", "load_err", "panic", "ok"}

\* Mutex::lock returns when nobody holds the mutex; dropping the guard frees it.
CanLock(owner, m) == owner[m] = "none"
Lock(owner, m, t) == [owner EXCEPT ![m] = t]
Unlock(owner, m) == [owner EXCEPT ![m] = "none"]

\* An update that goes on to the image with the guard still alive.
KeepGuardBeforeImage(owner) == owner

\* update, line 460: drop(vol_cache) before the image is added to the ui.
DropGuardBeforeImage(owner) == Unlock(owner, "vol_cache")

\* The mutex a thread is about to lock at its position, and its position once
\* it has the guard.
LoaderWants(pc) ==
    CASE pc = "lock_files" -> "image_files"
      [] pc \in {"lock_failed_open", "lock_failed_parse", "lock_failed_load"} -> "failed"
      [] pc = "lock_cache" -> "vol_cache"
      [] OTHER -> "none"
LoaderLocked(pc) ==
    CASE pc = "lock_files" -> "copy"
      [] pc = "lock_failed_open" -> "insert_open"
      [] pc = "lock_failed_parse" -> "insert_parse"
      [] pc = "lock_failed_load" -> "insert_load"
      [] pc = "lock_cache" -> "load_slice"
UiWants(pc) ==
    CASE pc \in {"lock_cache_keys", "lock_cache_count", "lock_cache_vol", "lock_cache_image"}
                -> "vol_cache"
      [] pc = "lock_files" -> "image_files"
      [] pc = "lock_failed" -> "failed"
      [] OTHER -> "none"
UiLocked(pc) ==
    CASE pc = "lock_cache_keys" -> "keys"
      [] pc = "lock_files" -> "num_files"
      [] pc = "lock_failed" -> "num_failed"
      [] pc = "lock_cache_count" -> "num_loaded"
      [] pc = "lock_cache_vol" -> "vol"
      [] pc = "lock_cache_image" -> "image"

InitViewer ==
    /\ vwOwner = [m \in Mutexes |-> "none"]
    /\ vwImageFiles = <<>>
    /\ vwCache = [has_key |-> FALSE, slices |-> 0]
    /\ vwFailed = 0
    /\ lfPc = "new"
    /\ lfFiles = <<>>
    /\ lfPath = "none"
    /\ lfResult = "None"
    /\ uiPc = "new"
    /\ uiFrames = 0
    /\ uiLocal = [num_files |-> 0, num_failed |-> 0, loaded_count |-> 0,
                  finished_loading |-> FALSE]
    /\ uiImage = "None"

\* ImageViewer::new: the input's files are listed and the loader thread is spawned.
VwNew ==
    /\ lfPc = "new"
    /\ \E fs \in SeqsUpTo(FileKinds, MaxFiles) : vwImageFiles' = fs
    /\ lfPc' = "lock_files"
    /\ uiPc' = "idle"
    /\ UNCHANGED <<vwOwner, vwCache, vwFailed, lfFiles, lfPath, lfResult,
                   uiFrames, uiLocal, uiImage>>
    /\ UNCHANGED <<parserVars, volVars, loaderVars, findVars, storeVars,
                   aeVars, readerVars, decodeVars, pixelVars, winLevelVars, shiftVars, validateVars, moveVars, minMaxVars>>

\* The loader thread is given the mutex it waits for.
LfLock ==
    /\ LoaderWants(lfPc) # "none"
    /\ CanLock(vwOwner, LoaderWants(lfPc))
    /\ vwOwner' = Lock(vwOwner, LoaderWants(lfPc), "loader")
    /\ lfPc' = LoaderLocked(lfPc)
    /\ UNCHANGED <<vwImageFiles, vwCache, vwFailed, lfFiles, lfPath, lfResult,
                   uiPc, uiFrames, uiLocal, uiImage>>
    /\ UNCHANGED <<parserVars, volVars, loaderVars, findVars, storeVars,
                   aeVars, readerVars, decodeVars, pixelVars, winLevelVars, shiftVars, validateVars, moveVars, minMaxVars>>

\* load_files, lines 176-181: the list is copied and its guard dropped.
LfCopy ==
    /\ lfPc = "copy"
    /\ lfFiles' = vwImageFiles
    /\ vwOwner' = Unlock(vwOwner, "image_files")
    /\ lfPc' = "next"
    /\ UNCHANGED <<vwImageFiles, vwCache, vwFailed, lfPath, lfResult,
                   uiPc, uiFrames, uiLocal, uiImage>>
    /\ UNCHANGED <<parserVars, volVars, loaderVars, findVars, storeVars,
                   aeVars, readerVars, decodeVars, pixelVars, winLevelVars, shiftVars, validateVars, moveVars, minMaxVars>>

\* Lines 184-201: the next path is opened and parsed; a parse error returns.
LfNext ==
    /\ lfPc = "next"
    /\ IF lfFiles = <<>>
       THEN /\ lfPc' = "done"
            /\ lfResult' = "Ok"
            /\ UNCHANGED <<lfFiles, lfPath>>
       ELSE /\ lfPath' = Head(lfFiles)
            /\ lfFiles' = Tail(lfFiles)
            /\ lfPc' = CASE Head(lfFiles) = "open_err"  -> "lock_failed_open"
                         [] Head(lfFiles) = "parse_err" -> "done"
                         [] Head(lfFiles) = "no_dicom"  -> "lock_failed_parse"
                         [] OTHER -> "lock_cache"
            /\ lfResult' = IF Head(lfFiles) = "parse_err" THEN "Err" ELSE lfResult
    /\ UNCHANGED <<vwOwner, vwImageFiles, vwCache, vwFailed, uiPc, uiFrames, uiLocal, uiImage>>
    /\ UNCHANGED <<parserVars, volVars, loaderVars, findVars, storeVars,
                   aeVars, readerVars, decodeVars, pixelVars, winLevelVars, shiftVars, validateVars, moveVars, minMaxVars>>

\* self.failed.lock().insert(path): lines 187, 197 and 211.  After the first
\* load_files returns the error, after the second it goes on with the next
\* path, the third happens with the vol_cache guard held.
LfInsertFailed ==
    /\ lfPc \in {"insert_open", "insert_parse", "insert_load"}
    /\ vwFailed' = vwFailed + 1
    /\ vwOwner' = Unlock(vwOwner, "failed")
    /\ lfPc' = CASE lfPc = "insert_open" -> "done"
                 [] lfPc = "insert_parse" -> "next"
                 [] lfPc = "insert_load" -> "drop_cache"
    /\ lfResult' = IF lfPc = "insert_open" THEN "Err" ELSE lfResult
    /\ UNCHANGED <<vwImageFiles, vwCache, lfFiles, lfPath, uiPc, uiFrames, uiLocal, uiImage>>
    /\ UNCHANGED <<parserVars, volVars, loaderVars, findVars, storeVars,
                   aeVars, readerVars, decodeVars, pixelVars, winLevelVars, shiftVars, validateVars, moveVars, minMaxVars>>

\* Lines 208-210: the series' volume is looked up or created and load_slice
\* is called on it, under the vol_cache guard.  A panic of load_slice ends
\* the thread; the guard is dropped by the unwinding.
LfLoadSlice ==
    /\ lfPc = "load_slice"
    /\ vwCache' = [has_key |-> TRUE,
                   slices |-> IF lfPath = "ok" THEN vwCache.slices + 1 ELSE vwCache.slices]
    /\ lfPc' = CASE lfPath = "ok" -> "drop_cache"
                 [] lfPath = "load_err" -> "lock_failed_load"
                 [] lfPath = "panic" -> "panicked"
    /\ vwOwner' = IF lfPath = "panic" THEN Unlock(vwOwner, "vol_cache") ELSE vwOwner
    /\ UNCHANGED <<vwImageFiles, vwFailed, lfFiles, lfPath, lfResult,
                   uiPc, uiFrames, uiLocal, uiImage>>
    /\ UNCHANGED <<parserVars, volVars, loaderVars, findVars, storeVars,
                   aeVars, readerVars, decodeVars, pixelVars, winLevelVars, shiftVars, validateVars, moveVars, minMaxVars>>

\* Line 214: drop(vol_cache).
LfDropCache ==
    /\ lfPc = "drop_cache"
    /\ vwOwner' = Unlock(vwOwner, "vol_cache")
    /\ lfPc' = "next"
    /\ UNCHANGED <<vwImageFiles, vwCache, vwFailed, lfFiles, lfPath, lfResult,
                   uiPc, uiFrames, uiLocal, uiImage>>
    /\ UNCHANGED <<parserVars, volVars, loaderVars, findVars, storeVars,
                   aeVars, readerVars, decodeVars, pixelVars, winLevelVars, shiftVars, validateVars, moveVars, minMaxVars>>

\* eframe calls update for a frame.
UiUpdate ==
    /\ uiPc = "idle"
    /\ uiFrames < MaxFrames
    /\ uiFrames' = uiFrames + 1
    /\ uiPc' = "lock_cache_keys"
    /\ UNCHANGED <<vwOwner, vwImageFiles, vwCache, vwFailed, lfPc, lfFiles, lfPath,
                   lfResult, uiLocal, uiImage>>
    /\ UNCHANGED <<parserVars, volVars, loaderVars, findVars, storeVars,
                   aeVars, readerVars, decodeVars, pixelVars, winLevelVars, shiftVars, validateVars, moveVars, minMaxVars>>

\* The UI thread is given the mutex it waits for.
UiLock ==
    /\ UiWants(uiPc) # "none"
    /\ CanLock(vwOwner, UiWants(uiPc))
    /\ vwOwner' = Lock(vwOwner, UiWants(uiPc), "ui")
    /\ uiPc' = UiLocked(uiPc)
    /\ UNCHANGED <<vwImageFiles, vwCache, vwFailed, lfPc, lfFiles, lfPath, lfResult,
                   uiFrames, uiLocal, uiImage>>
    /\ UNCHANGED <<parserVars, volVars, loaderVars, findVars, storeVars,
                   aeVars, readerVars, decodeVars, pixelVars, winLevelVars, shiftVars, validateVars, moveVars, minMaxVars>>

\* update, lines 384-388: the first series key, or return when there is none.
UiKeys ==
    /\ uiPc = "keys"
    /\ vwOwner' = Unlock(vwOwner, "vol_cache")
    /\ uiPc' = IF vwCache.has_key THEN "lock_files" ELSE "idle"
    /\ UNCHANGED <<vwImageFiles, vwCache, vwFailed, lfPc, lfFiles, lfPath, lfResult,
                   uiFrames, uiLocal, uiImage>>
    /\ UNCHANGED <<parserVars, volVars, loaderVars, findVars, storeVars,
                   aeVars, readerVars, decodeVars, pixelVars, winLevelVars, shiftVars, validateVars, moveVars, minMaxVars>>

\* Line 394: self.image_files.lock().len().
UiNumFiles ==
    /\ uiPc = "num_files"
    /\ uiLocal' = [uiLocal EXCEPT !.num_files = Len(vwImageFiles)]
    /\ vwOwner' = Unlock(vwOwner, "image_files")
    /\ uiPc' = "lock_failed"
    /\ UNCHANGED <<vwImageFiles, vwCache, vwFailed, lfPc, lfFiles, lfPath, lfResult,
                   uiFrames, uiImage>>
    /\ UNCHANGED <<parserVars, volVars, loaderVars, findVars, storeVars,
                   aeVars, readerVars, decodeVars, pixelVars, winLevelVars, shiftVars, validateVars, moveVars, minMaxVars>>

\* Line 395: image_loader.failed.lock().len().
UiNumFailed ==
    /\ uiPc = "num_failed"
    /\ uiLocal' = [uiLocal EXCEPT !.num_failed = vwFailed]
    /\ vwOwner' = Unlock(vwOwner, "failed")
    /\ uiPc' = "lock_cache_count"
    /\ UNCHANGED <<vwImageFiles, vwCache, vwFailed, lfPc, lfFiles, lfPath, lfResult,
                   uiFrames, uiImage>>
    /\ UNCHANGED <<parserVars, volVars, loaderVars, findVars, storeVars,
                   aeVars, readerVars, decodeVars, pixelVars, winLevelVars, shiftVars, validateVars, moveVars, minMaxVars>>

\* Lines 396-398 with num_z_slices_loaded: the guard lives for the if let.
UiNumLoaded ==
    /\ uiPc = "num_loaded"
    /\ uiLocal' = [uiLocal EXCEPT
                     !.loaded_count = vwCache.slices,
                     !.finished_loading =
                         (vwCache.slices = uiLocal.num_files - uiLocal.num_failed)]
    /\ vwOwner' = Unlock(vwOwner, "vol_cache")
    /\ uiPc' = "lock_cache_vol"
    /\ UNCHANGED <<vwImageFiles, vwCache, vwFailed, lfPc, lfFiles, lfPath, lfResult,
                   uiFrames, uiImage>>
    /\ UNCHANGED <<parserVars, volVars, loaderVars, findVars, storeVars,
                   aeVars, readerVars, decodeVars, pixelVars, winLevelVars, shiftVars, validateVars, moveVars, minMaxVars>>

\* Lines 401-460, with the vol_cache guard: return while the load is not
\* finished or when the axis is changed (the guard is dropped by the return),
\* else drop the guard and go on to the image.
UiVol ==
    /\ uiPc = "vol"
    /\ \E key \in {"none", "V"} :
         IF ~vwCache.has_key \/ ~uiLocal.finished_loading \/ key = "V"
         THEN /\ vwOwner' = Unlock(vwOwner, "vol_cache")
              /\ uiPc' = "idle"
         ELSE /\ vwOwner' = DropGuardBeforeImage(vwOwner)
              /\ uiPc' = "lock_cache_image"
    /\ UNCHANGED <<vwImageFiles, vwCache, vwFailed, lfPc, lfFiles, lfPath, lfResult,
                   uiFrames, uiLocal, uiImage>>
    /\ UNCHANGED <<parserVars, volVars, loaderVars, findVars, storeVars,
                   aeVars, readerVars, decodeVars, pixelVars, winLevelVars, shiftVars, validateVars, moveVars, minMaxVars>>

\* ui.add(egui::Image::from_uri(..)) calls ImageLoader::load, lines 248-259,
\* which makes the image under the vol_cache guard.
UiImage ==
    /\ uiPc = "image"
    /\ uiImage' = IF vwCache.has_key /\ vwCache.slices > 0 THEN "Ready" ELSE "NotSupported"
    /\ vwOwner' = Unlock(vwOwner, "vol_cache")
    /\ uiPc' = "idle"
    /\ UNCHANGED <<vwImageFiles, vwCache, vwFailed, lfPc, lfFiles, lfPath, lfResult,
                   uiFrames, uiLocal>>
    /\ UNCHANGED <<parserVars, volVars, loaderVars, findVars, storeVars,
                   aeVars, readerVars, decodeVars, pixelVars, winLevelVars, shiftVars, validateVars, moveVars, minMaxVars>>

(***************************************************************************)
(* Specifications.                                                         *)
(***************************************************************************)
Init ==
    /\ InitParser
    /\ InitVolume
    /\ InitLoader
    /\ InitFind
    /\ InitStore
    /\ InitAssocError
    /\ InitReader
    /\ InitDecode
    /\ InitPixel
    /\ InitWinLevel
    /\ InitShift
    /\ InitValidate
    /\ InitMove
    /\ InitMinMax
    /\ InitViewer

\* A volume that is loaded by direct calls of load_slice.
Next == LoadSliceCall
Spec == Init /\ [][Next]_vars

\* A consumer pulling from a Parser.
NextParser == Pull
SpecParser == Init /\ [][NextParser]_vars

\* Loader::load_into running beside readers of the workspace.
NextLoader ==
    \/ LdListChunks
    \/ LdFinish
    \/ LdLockError
    \/ LdLock
    \/ LdParse
    \/ LdLoadSlice
    \/ LdLoadSlicePanics
    \/ LdProgress
    \/ LdUnlock
    \/ ReaderAcquire
    \/ ReaderRelease
    \/ OtherWriterPanics
SpecLoader == Init /\ [][NextLoader]_vars

\* One C-FIND request handled by the SCP.
NextFind ==
    \/ FindBegin
    \/ FindWriteResultCmd
    \/ FindWriteResultData
    \/ FindWriteEnd
SpecFind == Init /\ [][NextFind]_vars

\* One C-STORE request handled by the SCP.
NextStore ==
    \/ StoreProcessReq
    \/ StoreReadDataset
    \/ StoreWriteResponse
SpecStore == Init /\ [][NextStore]_vars

\* One association error raised and written.
NextAssocError ==
    \/ AeRaise
    \/ AeWrite
SpecAssocError == Init /\ [][NextAssocError]_vars

\* A parser reading the elements of a dataset from a byte source.
NextReader ==
    \/ ReaderOpen
    \/ ReaderNext
SpecReader == Init /\ [][NextReader]_vars

\* One slice decoded and loaded into an empty volume.
NextDecode ==
    \/ DcProcess
    \/ DcLoadSlice
SpecDecode == Init /\ [][NextDecode]_vars

\* A volume that is loaded and then read by get_pixel or by a slice iterator.
NextPixel ==
    \/ PxLoad
    \/ PxGetPixel
    \/ SliceIterOpen
    \/ SliceIterNext
SpecPixel == Init /\ [][NextPixel]_vars

\* A window level applied to a value.
NextWinLevel ==
    \/ WlNew
    \/ WlApply
SpecWinLevel == Init /\ [][NextWinLevel]_vars

\* Two values shifted.
NextShift ==
    \/ ShChoose
    \/ ShShift
SpecShift == Init /\ [][NextShift]_vars

\* A slice info validated and decoded.
NextValidate ==
    \/ VdProcess
    \/ VdLoadPixelData
SpecValidate == Init /\ [][NextValidate]_vars

\* The PixelData bytes of one dataset taken by both slice infos.
NextMove ==
    \/ MvParse
    \/ MvProcess
    \/ MvParserStep
SpecMove == Init /\ [][NextMove]_vars

\* A volume that is loaded and asked for its min-max window level.
NextMinMax ==
    \/ MmLoadSlice
    \/ MmMinMaxWinLevel
SpecMinMax == Init /\ [][NextMinMax]_vars

\* The viewer's loader thread beside its UI thread.
NextViewer ==
    \/ VwNew
    \/ LfLock
    \/ LfCopy
    \/ LfNext
    \/ LfInsertFailed
    \/ LfLoadSlice
    \/ LfDropCache
    \/ UiUpdate
    \/ UiLock
    \/ UiKeys
    \/ UiNumFiles
    \/ UiNumFailed
    \/ UiNumLoaded
    \/ UiVol
    \/ UiImage
SpecViewer == Init /\ [][NextViewer]_vars

(***************************************************************************)
(* Properties.                                                             *)
(***************************************************************************)
FEq(a, b) == ~a.nan /\ ~b.nan /\ a.v = b.v
FLe(a, b) == ~a.nan /\ ~b.nan /\ a.v <= b.v
IsPrefix(a, b) == Len(a) <= Len(b) /\ \A i \in 1..Len(a) : a[i] = b[i]

\* C1: once next() has returned an Err item or None, every later call returns
\* None; so at most one Err item is produced and no item follows it.
C1_EndIsPermanent ==
    /\ \A i, j \in 1..Len(produced) :
         (i < j /\ produced[i].item \in {"None", "SomeErr"}) => produced[j] = ItemNone
    /\ Cardinality({i \in 1..Len(produced) : produced[i] = ItemErr}) <= 1
    /\ (Len(produced) > 0 /\ produced[Len(produced)].item \in {"None", "SomeErr"})
         => iterator_ended

\* C1 witness: elements, then an error, then at least two more pulls.
C1_Witness ==
    \E i \in 2..Len(produced) :
       /\ produced[i] = ItemErr
       /\ produced[i - 1].item = "SomeOk"
       /\ Len(produced) >= i + 2

\* C2: the stored slices are in ascending order of image position z, and
\* slices[i] is the buffer decoded with infos[i].
C2_SortedAscending ==
    /\ \A i \in 1..(Len(vol.infos) - 1) : FLe(vol.infos[i].z, vol.infos[i + 1].z)
    /\ Len(vol.slices) = Len(vol.infos)
    /\ \A i \in 1..Len(vol.infos) : vol.slices[i] = vol.infos[i].buffer

\* C3: a load_slice call that returns an error leaves slices, infos, dims and
\* min_val/max_val as they were before the call.
C3_ErrorLeavesVolume ==
    [][ (lsCalls' = lsCalls + 1 /\ lsResult' # "Ok")
          => /\ vol'.slices = vol.slices
             /\ vol'.infos = vol.infos
             /\ vol'.dims = vol.dims
             /\ vol'.min_val = vol.min_val
             /\ vol'.max_val = vol.max_val ]_vars

\* C4: whoever holds the workspace read lock during a load sees counts.z equal
\* to the number of stored slices, and as many infos as slices.
C4_ReaderSeesConsistentVolume ==
    wsLock.readers > 0
      => /\ vol.dims.counts[3] = Len(vol.slices)
         /\ Len(vol.infos) = Len(vol.slices)

\* C5, as claimed: the chunk is parsed (and its pixels decoded) while the loader
\* does not hold the write lock.
C5_ParseOutsideLock ==
    ldPc = "parse" => ~wsLock.writer

\* C5, amended: the loader holds the write lock from before it opens and parses a
\* chunk until the end of that chunk's iteration (parse, decode, insertion and
\* progress update), and releases it between chunks; readers hold the lock only
\* between chunks, before the load or after it.
C5_LockHeldForWholeChunk ==
    /\ wsLock.writer <=> ldPc \in {"parse", "load_slice", "progress", "unlock"}
    /\ wsLock.readers > 0 => ldPc \in {"start", "lock", "done"}

\* C5 witness: a chunk is being parsed under the write lock, after an earlier
\* chunk was stored.
C5_Witness ==
    /\ ldPc = "parse"
    /\ wsLock.writer
    /\ Len(vol.slices) > 0

\* C6: load_slice of a slice at the z of a stored slice returns an error and
\* stores nothing; the stored z positions are pairwise distinct.
C6_SameZRejected ==
    /\ [](\A i, j \in 1..Len(vol.infos) :
            i # j => ~FEq(vol.infos[i].z, vol.infos[j].z))
    /\ [][ (/\ lsCalls' = lsCalls + 1
            /\ \E i \in 1..Len(vol.infos) : FEq(vol.infos[i].z, lsArg'.z))
             => /\ lsResult' # "Ok"
                /\ vol'.infos = vol.infos
                /\ vol'.slices = vol.slices ]_vars

\* C6 witness: a slice was rejected for lying at the z of one of two stored slices.
C6_Witness ==
    /\ lsResult = "SameZPos"
    /\ Len(vol.infos) >= 2
    /\ \E i \in 1..Len(vol.infos) : FEq(vol.infos[i].z, lsArg.z)

\* The attributes a slice must share exactly with its volume.
SameExactFormat(s, v) ==
    /\ s.cols = v.dims.counts[1]
    /\ s.rows = v.dims.counts[2]
    /\ s.stride = v.stride
    /\ s.is_rgb = v.is_rgb
    /\ s.samples_per_pixel = v.samples_per_pixel
    /\ s.pixel_pad = v.pixel_pad

FindAnswer(msg_id, results) ==
    [k \in 1..(2 * Len(results) + 1) |->
        IF k = 2 * Len(results) + 1 THEN EndRsp(msg_id)
        ELSE IF k % 2 = 1 THEN ResultCmd(msg_id, (k + 1) \div 2)
        ELSE ResultData(k \div 2, results[k \div 2])]

\* C8: the PDUs written for a C-FIND request are command_1, dataset_1, ...,
\* command_N, dataset_N, terminator, in this order: 2N+1 PDUs when the handler
\* returns Ok, a prefix without the terminator when it returns an error.
C8_FindResponseOrder ==
    /\ IsPrefix(fWire, FindAnswer(fReq.msg_id, fReq.results))
    /\ fResult = "Ok" => /\ fWire = FindAnswer(fReq.msg_id, fReq.results)
                         /\ Len(fWire) = 2 * Len(fReq.results) + 1
    /\ fResult = "Err" => \A i \in 1..Len(fWire) : fWire[i].pdu # "end"
    /\ \A i \in 1..Len(fWire) : fWire[i].pdu = "end" => i = Len(fWire)

\* C8 witness: a request with at least two matches was answered in full.
C8_Witness ==
    /\ fResult = "Ok"
    /\ Len(fReq.results) >= 2
    /\ Len(fWire) = 2 * Len(fReq.results) + 1

\* C9: a C-STORE response is written only after the command was processed and
\* the whole dataset was read into the sink; it is the only PDU written and it
\* carries the success status; when a step fails no response is written.
C9_StoreStepOrder ==
    /\ Len(sWire) <= 1
    /\ sWire # <<>> => /\ sReq.cmd_ok
                       /\ sSink = sReq.pdvs
                       /\ sPdvs = 0
                       /\ sWire[1] = StoreRsp(sReq.msg_id, StatusSuccess)
    /\ sPc = "read_dataset" => sReq.cmd_ok /\ sSink = 0
    /\ sPc = "respond" => sReq.cmd_ok /\ sSink = sReq.pdvs
    /\ sResult = "Ok" => sWire # <<>>
    /\ sResult = "Err" => sWire = <<>>

\* C9 witness: a dataset of several PDVs was stored and answered.
C9_Witness ==
    /\ sResult = "Ok"
    /\ sSink >= 2
    /\ Len(sWire) = 1

\* C10: AssocError::write never returns Ok; it writes at most one PDU, the
\* error's response, and none when the error carries no response; a response
\* that was written is followed by a flush before the call returns.
C10_AssocErrorWrite ==
    aePc = "done"
      => /\ ~aeResult.ok
         /\ Len(aeWire) <= 1
         /\ aeErr.rsp.pdu = "none" => aeWire = <<>> /\ aeFlushed = "no"
         /\ aeWire # <<>> => aeWire = <<aeErr.rsp>> /\ aeFlushed # "no"
         /\ (aeErr.rsp.pdu # "none" /\ aeResult.err \notin {"WriteFailed", "FlushFailed"})
              => /\ aeWire = <<aeErr.rsp>>
                 /\ aeFlushed = "ok"
                 /\ aeResult.err = aeErr.err

\* C10 witness: a rejection was written and flushed, and the error returned.
C10_Witness ==
    /\ aePc = "done"
    /\ aeErr.rsp.pdu = "A-ASSOCIATE-RJ"
    /\ aeWire = <<aeErr.rsp>>
    /\ aeFlushed = "ok"
    /\ aeResult = [ok |-> FALSE, err |-> aeErr.err]

\* C11: the response an association error puts on the wire carries the DICOM
\* triple of its cause: called-AE-title mismatch A-ASSOCIATE-RJ (2, 1, 7),
\* calling-AE-title mismatch A-ASSOCIATE-RJ (2, 1, 3), unexpected PDU A-ABORT
\* (source 2, reason 2), invalid PDU A-ABORT (source 2, reason 6).
C11_ErrorTriples ==
    (aePc = "done" /\ aeWire # <<>>)
      => /\ aeCtor = "rj_called_aet"
              => aeWire = <<[pdu |-> "A-ASSOCIATE-RJ", result |-> 2, source |-> 1, reason |-> 7]>>
         /\ aeCtor = "rj_calling_aet"
              => aeWire = <<[pdu |-> "A-ASSOCIATE-RJ", result |-> 2, source |-> 1, reason |-> 3]>>
         /\ aeCtor = "ab_unexpected_pdu"
              => /\ Len(aeWire) = 1
                 /\ aeWire[1].pdu = "A-ABORT"
                 /\ aeWire[1].source = 2
                 /\ aeWire[1].reason = 2
         /\ aeCtor = "ab_invalid_pdu"
              => /\ Len(aeWire) = 1
                 /\ aeWire[1].pdu = "A-ABORT"
                 /\ aeWire[1].source = 2
                 /\ aeWire[1].reason = 6

\* C11 witness: the rejection of a called-AE-title mismatch reached the wire.
C11_Witness ==
    /\ aePc = "done"
    /\ aeCtor = "rj_called_aet"
    /\ aeErr.err = "InvalidAeTitle"
    /\ Len(aeWire) = 1

\* C12: when the byte source yields zero bytes where the first byte of an
\* element's tag is required, next() returns None and no Err item has been
\* produced; when the source is exhausted after at least one byte of the
\* element (tag, VR or value length) was read, next() returns an Err item.
C12_EofClassification ==
    (rdPc = "open" /\ rdItems # <<>> /\ rdLast.stage # "none" /\ rdLast.eof)
      => /\ (rdLast.stage = "tag" /\ rdLast.end = rdLast.start)
              => /\ rdItems[Len(rdItems)] = ItemNone
                 /\ \A i \in 1..Len(rdItems) : rdItems[i] # ItemErr
         /\ (rdLast.stage \in {"tag", "vr", "vl"} /\ rdLast.end > rdLast.start)
              => rdItems[Len(rdItems)] = ItemErr

\* C12 witness: after one element was produced the source ran out two bytes
\* into the next element, and next() returned an Err item.
C12_Witness ==
    /\ Len(rdItems) = 2
    /\ rdItems[1].item = "SomeOk"
    /\ rdItems[2] = ItemErr
    /\ rdLast.eof
    /\ rdLast.stage = "tag"
    /\ rdLast.end = rdLast.start + 2

\* The bytes of a length field, most significant first.
MsbFirst(bs, big_endian) ==
    IF big_endian THEN bs ELSE [i \in 1..Len(bs) |-> bs[Len(bs) + 1 - i]]

\* C13: once the value length of an element has been read, the bytes consumed
\* after the tag are a 4-byte length (implicit VR), or the 2 VR bytes, 2
\* reserved bytes and a 4-byte length (explicit VR with the 2-byte pad), or
\* the 2 VR bytes and a 2-byte length (other explicit VRs), and the length is
\* the value of its bytes in the transfer syntax's byte order.
C13_ValueLengthFraming ==
    (rdPc = "open" /\ rdLast.stage \in {"value", "element"})
      => LET after == SubSeq(rdData.bytes, rdLast.tag_end + 1, rdLast.vl_end)
             n == Len(after)
             vr == rdLast.vr
         IN IF ~rdTs.explicit_vr
            THEN /\ n = 4
                 /\ LET m == MsbFirst(after, rdTs.big_endian) IN
                      /\ rdLast.vl.hi = m[1] * 256 + m[2]
                      /\ rdLast.vl.lo = m[3] * 256 + m[4]
            ELSE IF vr.has_explicit_2byte_pad
            THEN /\ n = 8
                 /\ <<after[1], after[2]>> = <<vr.c1, vr.c2>>
                 /\ LET m == MsbFirst(SubSeq(after, 5, 8), rdTs.big_endian) IN
                      /\ rdLast.vl.hi = m[1] * 256 + m[2]
                      /\ rdLast.vl.lo = m[3] * 256 + m[4]
            ELSE /\ n = 4
                 /\ <<after[1], after[2]>> = <<vr.c1, vr.c2>>
                 /\ LET m == MsbFirst(SubSeq(after, 3, 4), rdTs.big_endian) IN
                      /\ rdLast.vl.hi = 0
                      /\ rdLast.vl.lo = m[1] * 256 + m[2]

\* C13 witness: an explicit VR big endian OB element with a length of two
\* bytes was read whole.
C13_Witness ==
    /\ rdLast.stage = "element"
    /\ rdTs = ExplicitVRBigEndian
    /\ rdLast.vr.name = "OB"
    /\ rdLast.vl = W32(0, 2)
    /\ rdLast.vl_end - rdLast.tag_end = 8
    /\ rdLast.end = rdLast.vl_end + 2

\* C17: after every successful load_slice the volume's origin is the origin of
\* the first stored slice, infos[0], and that slice is the one with the lowest
\* z position.
C17_OriginIsLowestSlice ==
    (lsResult = "Ok" /\ Len(vol.infos) > 0)
      => /\ vol.dims.origin = SliceDims(vol.infos[1]).origin
         /\ \A i \in 1..Len(vol.infos) : ~FLt(vol.infos[i].z, vol.infos[1].z)

\* The decoded samples of the slice that differ from its PixelPaddingValue.
DcNonPad ==
    { dcDecoded.buffer[i] : i \in
        { k \in 1..Len(dcDecoded.buffer) :
            ~(dcInfo.pixel_pad.some /\ dcDecoded.buffer[k] = dcInfo.pixel_pad.v) } }
SetMin(S) == CHOOSE v \in S : \A w \in S : v <= w
SetMax(S) == CHOOSE v \in S : \A w \in S : v >= w

DcWidth == (dcDecoded.max_val - dcDecoded.min_val) * 1000
DcCenter == dcDecoded.min_val * 1000 + (dcDecoded.max_val - dcDecoded.min_val) * 500
HasMinMax(win_levels) ==
    \E i \in 1..Len(win_levels) :
       win_levels[i].width = DcWidth /\ win_levels[i].center = DcCenter

\* C20: after monochrome decoding the window levels of the slice hold an entry
\* of width max - min and center min + (max - min) / 2, and an entry was added
\* exactly when the slice brought none of that center and width.
C20_MinMaxWindowLevel ==
    (dcPc = "loaded" /\ ~IsRgb(dcInfo) /\ dcDecoded.status \in {"Ok", "PixelValueError"})
      => /\ HasMinMax(dcDecoded.win_levels)
         /\ (Len(dcDecoded.win_levels) = Len(dcInfo.win_levels) + 1)
              <=> ~HasMinMax(dcInfo.win_levels)

\* C14: get_pixel on a coordinate that is out of range on any axis returns
\* InvalidDims, and a slice iterator with an out-of-range index yields no
\* pixel.
C14_OutOfRangeIsInvalidDims ==
    /\ (pxPc = "got" /\ \E a \in 1..3 : pxPixel.coord[a] >= pxVol.dims.counts[a])
         => pxPixel.status = "InvalidDims"
    /\ (pxPc \in {"iterating", "ended"} /\ itIndex >= axis_dims(pxVol, itAxis)[3])
         => itOut = <<>>

\* C15: for a monochrome volume and an in-range index the loop over
\* slice_iter(axis, index) gets width * height pixels, the k-th one (from 0)
\* at plane column k mod width and plane row k div width.
C15_SliceIterRowMajor ==
    (pxPc \in {"iterating", "ended"} /\ ~pxVol.is_rgb
       /\ itIndex < axis_dims(pxVol, itAxis)[3])
      => /\ \A k \in 1..Len(itOut) :
               itOut[k].coord = PlaneCoord(itAxis, itIndex,
                                           (k - 1) % axis_dims(pxVol, itAxis)[1],
                                           (k - 1) \div axis_dims(pxVol, itAxis)[1])
         /\ pxPc = "ended"
              => Len(itOut) = axis_dims(pxVol, itAxis)[1] * axis_dims(pxVol, itAxis)[2]

\* The red, green and blue samples of pixel p of a slice buffer, by
\* PlanarConfiguration.
RgbSamples(buffer, planar, p) ==
    IF planar = 0
    THEN <<buffer[3 * p + 1], buffer[3 * p + 2], buffer[3 * p + 3]>>
    ELSE <<buffer[p + 1], buffer[p + (Len(buffer) \div 3) + 1],
           buffer[p + 2 * (Len(buffer) \div 3) + 1]>>

\* C16: get_pixel on an in-range coordinate of an RGB volume succeeds and
\* returns the red, green and blue samples of that pixel.
C16_RgbIndexing ==
    (pxPc = "got" /\ pxVol.is_rgb
       /\ pxPixel.coord[1] < pxVol.dims.counts[1]
       /\ pxPixel.coord[2] < pxVol.dims.counts[2]
       /\ pxPixel.coord[3] < Len(pxVol.slices))
      => /\ pxPixel.status = "Ok"
         /\ <<pxPixel.r, pxPixel.g, pxPixel.b>>
              = [c \in 1..3 |->
                   1000 * RgbSamples(pxVol.slices[pxPixel.coord[3] + 1], pxPlanar,
                                     pxPixel.coord[1]
                                       + pxPixel.coord[2] * pxVol.dims.counts[1])[c]]

\* What apply is to return by the general rule: out_min at or below
\* c' - w'/2, out_max above c' + w'/2, the linear remap in between, with
\* c' = center - 0.5 and w' = width - 1.
WlLow == (wlLevel.center - 500) - (wlLevel.width - 1000) \div 2
WlHigh == (wlLevel.center - 500) + (wlLevel.width - 1000) \div 2
WlLinear ==
    (wlValue > WlLow /\ wlValue <= WlHigh)
      => FracEq(wlResult,
                Frac((wlValue - WlLow) * (OutMax(wlLevel) - OutMin(wlLevel))
                       + OutMin(wlLevel) * (WlHigh - WlLow),
                     WlHigh - WlLow))
WlGeneralRuleAsStated ==
    /\ wlValue <= WlLow => FracEq(wlResult, Frac(OutMin(wlLevel), 1))
    /\ wlValue > WlHigh => FracEq(wlResult, Frac(OutMax(wlLevel), 1))
    /\ WlLinear
\* The same with the first case taking precedence, as the tests are ordered.
WlGeneralRule ==
    /\ wlValue <= WlLow => FracEq(wlResult, Frac(OutMin(wlLevel), 1))
    /\ (wlValue > WlLow /\ wlValue > WlHigh) => FracEq(wlResult, Frac(OutMax(wlLevel), 1))
    /\ WlLinear
WlBoundaries ==
    /\ wlValue = wlLevel.center - wlLevel.width \div 2
         => FracEq(wlResult, Frac(OutMin(wlLevel), 1))
    /\ wlValue = wlLevel.center + wlLevel.width \div 2
         => FracEq(wlResult, Frac(OutMax(wlLevel), 1))

\* C21 as stated: for every window level apply(center - width/2) = out_min and
\* apply(center + width/2) = out_max, and apply follows the general rule.
C21_WindowLevelBoundaries ==
    wlPc = "applied" => WlBoundaries /\ WlGeneralRuleAsStated

\* C21 amended: the boundary values hold for every window level of a width
\* above 0; the general rule holds for every window level when the out_min
\* case is taken first.
C21_BoundariesForPositiveWidth ==
    wlPc = "applied" => /\ wlLevel.width > 0 => WlBoundaries
                        /\ WlGeneralRule
C21_Witness ==
    /\ wlPc = "applied" /\ wlLevel.width = 2000 /\ wlLevel.center = 1000
    /\ wlValue = wlLevel.center + wlLevel.width \div 2
    /\ wlResult = Frac(OutMax(wlLevel), 1)

\* A shifted value less 2^(N-1), and the order of two shifted values.
Unshifted(bits, s) ==
    CASE bits = 8 -> s - 128
      [] bits = 16 -> s - 32768
      [] bits = 32 -> (s.hi - 32768) * 65536 + s.lo
InUnsignedRange(bits, s) ==
    CASE bits = 8 -> s \in 0..255
      [] bits = 16 -> s \in 0..65535
      [] bits = 32 -> s.hi \in 0..65535 /\ s.lo \in 0..65535
ShiftedLess(bits, s, t) ==
    IF bits = 32 THEN s.hi < t.hi \/ (s.hi = t.hi /\ s.lo < t.lo) ELSE s < t
ShiftedZero(bits) == IF bits = 32 THEN W32(0, 0) ELSE 0
ShiftedTop(bits) ==
    CASE bits = 8 -> 255 [] bits = 16 -> 65535 [] bits = 32 -> W32(65535, 65535)

\* C22: shift_iN(v) is v + 2^(N-1) as an unsigned N-bit value, so MIN goes to
\* 0 and MAX to 2^N - 1, and the shift keeps the order and is one-to-one.
C22_ShiftIsOffset ==
    shPc = "shifted"
      => /\ \A i \in 1..2 : /\ InUnsignedRange(shBits, shOut[i])
                             /\ Unshifted(shBits, shOut[i]) = shVal[i]
         /\ shVal[1] = SignedMin(shBits) => shOut[1] = ShiftedZero(shBits)
         /\ shVal[1] = SignedMax(shBits) => shOut[1] = ShiftedTop(shBits)
         /\ shVal[1] < shVal[2] <=> ShiftedLess(shBits, shOut[1], shOut[2])
         /\ shVal[1] = shVal[2] <=> shOut[1] = shOut[2]
C22_Witness ==
    /\ shPc = "shifted" /\ shBits = 32
    /\ shVal = <<-1, SignedMax(32)>>
    /\ shOut = <<W32(32767, 65535), W32(65535, 65535)>>

\* C23: when validate() returns Ok, BitsStored is within 1..BitsAllocated,
\* having been set to BitsAllocated when it was 0 or above it, and HighBit is
\* within BitsStored - 1..BitsAllocated - 1, having been set to BitsStored - 1
\* when it was not.
C23_ValidateCoercesBits ==
    (vdPc = "loaded" /\ vdValid.result = "Ok")
      => /\ vdValid.info.bits_alloc = vdInfo.bits_alloc
         /\ vdValid.info.bits_stored \in 1..vdValid.info.bits_alloc
         /\ vdValid.info.bits_stored
              = (IF vdInfo.bits_stored \in 1..vdInfo.bits_alloc
                 THEN vdInfo.bits_stored ELSE vdInfo.bits_alloc)
         /\ vdValid.info.high_bit
              \in (vdValid.info.bits_stored - 1)..(vdValid.info.bits_alloc - 1)
         /\ vdValid.info.high_bit
              = (IF vdInfo.high_bit
                      \in (vdValid.info.bits_stored - 1)..(vdValid.info.bits_alloc - 1)
                 THEN vdInfo.high_bit ELSE vdValid.info.bits_stored - 1)
C23_Witness ==
    /\ vdPc = "loaded" /\ vdValid.result = "Ok"
    /\ vdInfo.bits_alloc = 16 /\ vdInfo.bits_stored = 40 /\ vdInfo.high_bit = 11
    /\ vdValid.info.bits_stored = 16 /\ vdValid.info.high_bit = 15

\* The checks validate makes before the one of the samples per pixel.
VdEarlierChecksPass ==
    /\ Len(vdInfo.pd_bytes) > 0
    /\ vdInfo.cols # 0 /\ vdInfo.rows # 0
    /\ vdInfo.vr \in {"OB", "OW"}
    /\ vdInfo.bits_alloc \in {8, 16, 32}
VdPairingBroken ==
    \/ vdInfo.photo_interp = "RGB" /\ vdInfo.samples_per_pixel # 3
    \/ vdInfo.photo_interp \in {"MONOCHROME1", "MONOCHROME2"} /\ vdInfo.samples_per_pixel # 1

\* C24: validate() never accepts RGB with other than 3 samples per pixel nor
\* MONOCHROME1/2 with other than 1, and answers InvalidPhotoInterpSamples
\* (once the checks before it have passed); so a decoded RGB slice has 3
\* samples for each pixel and a decoded monochrome slice has 1.
C24_PhotoInterpSamples ==
    vdPc = "loaded"
      => /\ VdPairingBroken => /\ vdValid.result # "Ok"
                               /\ vdDecoded.status \notin {"Ok", "Panic"}
                               /\ VdEarlierChecksPass
                                    => /\ vdValid.result = "InvalidPhotoInterpSamples"
                                       /\ vdDecoded.status = "InvalidPhotoInterpSamples"
         /\ (~VdPairingBroken /\ VdEarlierChecksPass)
              => vdValid.result # "InvalidPhotoInterpSamples"
         /\ (vdDecoded.status = "Ok" /\ vdInfo.photo_interp = "RGB")
              => vdInfo.samples_per_pixel = 3
         /\ (vdDecoded.status = "Ok" /\ vdInfo.photo_interp \in {"MONOCHROME1", "MONOCHROME2"})
              => vdInfo.samples_per_pixel = 1
C24_Witness ==
    /\ vdPc = "loaded"
    /\ vdInfo.photo_interp = "RGB" /\ vdInfo.samples_per_pixel = 1
    /\ vdInfo.pd_bytes = <<1, 2, 3, 4>>
    /\ vdValid.result = "InvalidPhotoInterpSamples"

\* C28: for a slice info that passes validate() the decoders return a buffer
\* of rows * cols * frames * samples values or an error, and never index
\* beyond the PixelData bytes.
C28_DecodeStaysInBounds ==
    (vdPc = "loaded" /\ vdValid.result = "Ok")
      => /\ vdDecoded.status # "Panic"
         /\ vdDecoded.status = "Ok"
              => Len(vdDecoded.buffer) = SampleCount(vdInfo)

\* The i-th 16-bit word of the PixelData of the decoded slice, as unsigned.
DcWord16(i) ==
    IF dcInfo.big_endian
    THEN dcInfo.pd_bytes[2 * i - 1] * 256 + dcInfo.pd_bytes[2 * i]
    ELSE dcInfo.pd_bytes[2 * i] * 256 + dcInfo.pd_bytes[2 * i - 1]

\* C25: a 16-bit monochrome slice decodes, in either byte order, to its
\* samples in source order: a signed sample to its i16 value, an unsigned
\* sample u to min(u, 32767).
C25_Mono16Decoding ==
    (dcPc = "loaded" /\ ~IsRgb(dcInfo) /\ dcInfo.bits_alloc = 16 /\ dcDecoded.status = "Ok")
      => /\ Len(dcDecoded.buffer) = dcInfo.cols * dcInfo.rows
         /\ \A i \in 1..Len(dcDecoded.buffer) :
               dcDecoded.buffer[i]
                 = (IF dcInfo.pixel_rep # 0
                    THEN (IF DcWord16(i) >= 32768 THEN DcWord16(i) - 65536 ELSE DcWord16(i))
                    ELSE (IF DcWord16(i) > 32767 THEN 32767 ELSE DcWord16(i)))
C25_Witness ==
    /\ dcPc = "loaded" /\ dcInfo.bits_alloc = 16 /\ dcInfo.big_endian
    /\ dcInfo.pixel_rep # 0
    /\ dcInfo.pd_bytes = <<248, 48, 15, 255>>
    /\ dcDecoded.status = "Ok"
    /\ dcDecoded.buffer = <<-2000, 4095>>

\* The bytes of the parsed PixelData element: its own data, then its items'
\* data in item order.
RECURSIVE Flatten(_)
Flatten(items) == IF items = <<>> THEN <<>> ELSE Head(items) \o Flatten(Tail(items))
MvOrigBytes == mvOrig.data \o Flatten(mvOrig.items)

\* C26: after PixelDataSliceInfo processing the PixelData element and each of
\* its fragment items has an empty data buffer, and the slice info holds the
\* original bytes, the fragments concatenated in item order; the same for
\* the elements process_dcm_parser was given.
C26_PixelDataMoved ==
    /\ mvPc = "processed" =>
          /\ mvRoot.data = <<>>
          /\ \A i \in 1..Len(mvRoot.items) : mvRoot.items[i] = <<>>
          /\ Len(mvRoot.items) = Len(mvOrig.items)
          /\ mvBytes = MvOrigBytes
          /\ mvVr = mvOrig.vr
    /\ (mvPc # "idle" /\ mvIdx > Len(mvStream)) =>
          /\ \A i \in 1..Len(mvStream) : mvStream[i] = <<>>
          /\ mvCoreBytes = MvOrigBytes
C26_Witness ==
    /\ mvPc = "processed"
    /\ mvIdx > Len(mvStream)
    /\ mvOrig.items = << <<6, 7>>, <<>>, <<5>> >>
    /\ mvBytes = <<6, 7, 5>>
    /\ mvCoreBytes = <<6, 7, 5>>

\* The chunk keys recorded in the progress, and the ones still to be attempted.
LdRecorded == progress.loaded \o progress.failed
LdPending == [i \in 1..Len(ldChunks) |-> ldChunks[i].key]
LdInFlight == IF ldPc \in {"parse", "load_slice", "progress", "panicked"}
              THEN <<ldChunk.key>> ELSE <<>>
SeqRange(s) == {s[i] : i \in 1..Len(s)}
NoDuplicates(s) == \A i, j \in 1..Len(s) : s[i] = s[j] => i = j

\* Every chunk is recorded once, about to be recorded or still to be
\* attempted, and when load_into returns Ok nothing is left: this holds of
\* every load, and of a load that panics up to the panic.
LdRecordedOnce ==
    /\ ldResult \in {"None", "Ok", "ChunksError", "LockError"}
    /\ ldPc # "start" =>
          /\ NoDuplicates(LdRecorded \o LdInFlight \o LdPending)
          /\ SeqRange(LdRecorded \o LdInFlight \o LdPending)
                = 1..(Len(LdRecorded) + Len(LdInFlight) + Len(LdPending))
    /\ ldResult = "Ok" => (ldChunks = <<>> /\ LdInFlight = <<>>)

\* C27: load_into attempts every chunk in order and records each exactly once
\* as loaded or failed, goes on after a chunk fails, and returns Ok unless
\* listing the chunks or taking the lock fails: it never stops inside a
\* chunk, and it ends with Ok, ChunksError or LockError.
C27_FailingChunkDoesNotStopLoad ==
    /\ LdRecordedOnce
    /\ ldPc # "panicked"
    /\ ldPc = "done" => ldResult \in {"Ok", "ChunksError", "LockError"}

\* C29: minmax_winlevel computes width = max_val - min_val and
\* center = min_val + width / 2 without overflowing i16, in every volume
\* state, the empty volume and the full i16 range included.
C29_MinMaxNoOverflow ==
    mmPc = "called" =>
      /\ mmOut.status = "Ok"
      /\ mmOut.width = mmVol.max_val - mmVol.min_val
      /\ mmOut.center = mmVol.min_val + TruncDiv(mmOut.width, 2)

\* The volumes on which it does hold: those whose values span at most
\* i16::MAX.
C29_HoldsWithinI16 ==
    (mmPc = "called" /\ InI16(mmVol.max_val - mmVol.min_val)) =>
      /\ mmOut.status = "Ok"
      /\ mmOut.width = mmVol.max_val - mmVol.min_val
      /\ mmOut.center = mmVol.min_val + TruncDiv(mmOut.width, 2)

\* The mutex a thread waits for at its position; a thread is blocked when
\* somebody holds that mutex.
VwWants(t) == IF t = "loader" THEN LoaderWants(lfPc) ELSE UiWants(uiPc)
VwBlocked(t) == VwWants(t) # "none" /\ vwOwner[VwWants(t)] # "none"
VwEnded(t) == IF t = "loader" THEN lfPc \in {"done", "panicked"} ELSE uiPc = "idle"

\* C30: the loader thread and the UI thread cannot deadlock on vol_cache,
\* failed and image_files: no thread asks for a mutex it holds, the two never
\* wait for each other, and a thread that has ended (load_files returned or
\* panicked, update returned) holds nothing the other could wait for.
C30_NoDeadlock ==
    /\ \A t \in Threads : VwWants(t) # "none" => vwOwner[VwWants(t)] # t
    /\ ~(VwBlocked("loader") /\ VwBlocked("ui"))
    /\ \A t \in Threads : VwEnded(t) => \A m \in Mutexes : vwOwner[m] # t
C30_Witness ==
    /\ lfPc = "lock_failed_load"
    /\ vwOwner["vol_cache"] = "loader"
    /\ vwOwner["failed"] = "ui"
    /\ VwBlocked("loader")
====
